---- MODULE Spec2Model ----
(***************************************************************************)
(* Model of watson_developer_cloud/ai_open_scale_v1.py: the four endpoint  *)
(* operations of AiOpenScaleV1 and the _from_dict / _to_dict codec of the  *)
(* response model classes.                                                 *)
(*                                                                         *)
(* Python values are tagged records: None is [t |-> "null"], a str is      *)
(* [t |-> "str", v |-> <<characters>>], a dict is [t |-> "obj", v |-> f]   *)
(* with f a function on its keys, a list is [t |-> "list", v |-> seq], an  *)
(* instance of a model class is [t |-> "inst", cls |-> name, d |-> f] with *)
(* f its __dict__, and a raised exception is [t |-> "raise", ...].         *)
(***************************************************************************)
EXTENDS FiniteSets, Integers, Sequences, TLC

VARIABLES
  last,        \* the most recent operation call: its arguments and outcome
  request,     \* what the most recent call handed to WatsonService.request
               \* (Absent when it handed nothing)
  nrequests,   \* how many times WatsonService.request has been invoked
  ncalls,      \* how many operation calls have been made
  npassed,     \* how many operation calls got past their parameter checks
  outcome,     \* what WatsonService.request gave back to the most recent
               \* call (Absent when it was not invoked)
  overrides,   \* the headers mapping the caller passed to the most recent
               \* call, as the call left it (Absent when none was passed)
  task,        \* the explanation task the caller holds: the data mart and
               \* the id the most recent submission returned
  curClass,    \* codec: the model class under exercise
  curInput,    \* codec: the value the exercise started from
  curDict,     \* codec: the JSON dictionary the last _to_dict returned
  curObj,      \* codec: the instance the last _from_dict returned, or the
               \* exception it raised
  applied,     \* codec: the codec methods applied so far, in order
  again,       \* codec: the method invoked a second time on the value it
               \* was just given, and what it returned (Absent before)
  curOther,    \* equality: the value curInput is compared with
  curEq,       \* equality: what ==, != and the reflected == returned
  client,      \* concurrent calls: the attributes of the AiOpenScaleV1
               \* instance the calls are made on
  pc,          \* concurrent calls: how far the handler of each call has run
  frame        \* concurrent calls: the local variables of each call

vars == <<last, request, nrequests, ncalls, npassed, outcome, overrides, task, curClass, curInput, curDict, curObj, applied, again, curOther, curEq, client, pc, frame>>
opVars == <<last, request, nrequests, ncalls, npassed, outcome, overrides, task>>
codecVars == <<curClass, curInput, curDict, curObj, applied, again, curOther, curEq>>
concVars == <<client, pc, frame>>

(***************************************************************************)
(* Bounds                                                                  *)
(***************************************************************************)
MaxCalls == 2
MaxThreads == 2

(***************************************************************************)
(* Python values                                                           *)
(***************************************************************************)
None == [t |-> "null"]
Str(s) == [t |-> "str", v |-> s]
Dict(f) == [t |-> "obj", v |-> f]
List(s) == [t |-> "list", v |-> s]
EmptyMap == [k \in {} |-> None]
Absent == [t |-> "absent"]

(* what is recorded of one call of an operation *)
CallRecord(op, args, kwargs, result) ==
  [op |-> op, args |-> args, kwargs |-> kwargs, result |-> result]
NoCall == [op |-> "none"]

ValueError(name) == [t |-> "raise", kind |-> "ValueError", param |-> name]
TypeError == [t |-> "raise", kind |-> "TypeError"]
IsRaise(x) == x.t = "raise"

Request(method, url, headers) ==
  [t |-> "request", method |-> method, url |-> url, headers |-> headers,
   accept_json |-> TRUE]
RequestJson(method, url, headers, data) ==
  [t |-> "request", method |-> method, url |-> url, headers |-> headers,
   accept_json |-> TRUE, json |-> data]

(* dict.update(other): keys of other replace and extend those of the dict; *)
(* update(None) raises TypeError.                                          *)
DictUpdate(h, other) ==
  IF other.t = "obj"
    THEN Dict([k \in (DOMAIN h.v) \cup (DOMAIN other.v) |->
                 IF k \in DOMAIN other.v THEN other.v[k] ELSE h.v[k]])
    ELSE TypeError

(* if 'headers' in kwargs: headers.update(kwargs.get('headers'))           *)
MergeHeaders(headers, kwargs) ==
  IF "headers" \in DOMAIN kwargs
    THEN DictUpdate(headers, kwargs["headers"])
    ELSE headers

(***************************************************************************)
(* URL construction.  A URL is a sequence of tokens: the separator "/",    *)
(* the literal names of the template, and the characters of the encoded    *)
(* path variables.                                                         *)
(***************************************************************************)
RECURSIVE Flatten(_)
Flatten(ss) == IF ss = <<>> THEN <<>> ELSE Head(ss) \o Flatten(Tail(ss))

(* WatsonService._encode_path_vars: percent-encoding of one character      *)
QuoteChar(c) ==
  IF c = "/" THEN <<"%", "2", "F">>
  ELSE IF c = "%" THEN <<"%", "2", "5">>
  ELSE IF c = "?" THEN <<"%", "3", "F">>
  ELSE IF c = "#" THEN <<"%", "2", "3">>
  ELSE <<c>>

encode_path_vars(x) == Flatten([i \in 1..Len(x.v) |-> QuoteChar(x.v[i])])

(***************************************************************************)
(* The operations.  Each handler is split along its source: the checks of  *)
(* the required parameters, the headers, the body, the URL; the operation  *)
(* itself is the outcome of the handler up to the call of self.request:    *)
(* the exception raised, or the request handed over.                       *)
(***************************************************************************)
Passed == [t |-> "passed"]

(* the check of values left out *)
post_feedback_payload_validate_without_values(data_mart_id, binding_id, subscription_id, values) ==
  IF data_mart_id = None THEN ValueError("data_mart_id")
  ELSE IF binding_id = None THEN ValueError("binding_id")
  ELSE IF subscription_id = None THEN ValueError("subscription_id")
  ELSE Passed

post_feedback_payload_validate(data_mart_id, binding_id, subscription_id, values) ==
  IF data_mart_id = None THEN ValueError("data_mart_id")
  ELSE IF binding_id = None THEN ValueError("binding_id")
  ELSE IF subscription_id = None THEN ValueError("subscription_id")
  ELSE IF values = None THEN ValueError("values")
  ELSE Passed

post_feedback_payload_headers(kwargs) ==
  MergeHeaders(Dict(EmptyMap), kwargs)

(* the binding id written under both id keys *)
post_feedback_payload_data_binding_twice(binding_id, subscription_id, values, fields) ==
  Dict([binding_id |-> binding_id,
        subscription_id |-> binding_id,
        values |-> values,
        fields |-> fields])

post_feedback_payload_data(binding_id, subscription_id, values, fields) ==
  Dict([binding_id |-> binding_id,
        subscription_id |-> subscription_id,
        values |-> values,
        fields |-> fields])

post_feedback_payload_url(data_mart_id) ==
  <<"/", "v1", "/", "data_marts", "/">>
    \o encode_path_vars(data_mart_id)
    \o <<"/", "feedback_payloads">>

post_feedback_payload(data_mart_id, binding_id, subscription_id, values, fields, kwargs) ==
  LET checked == post_feedback_payload_validate(data_mart_id, binding_id,
                                                subscription_id, values)
      headers == post_feedback_payload_headers(kwargs)
      data == post_feedback_payload_data(binding_id, subscription_id, values, fields)
      url == post_feedback_payload_url(data_mart_id)
  IN IF IsRaise(checked) THEN checked
     ELSE IF IsRaise(headers) THEN headers
     ELSE RequestJson("POST", url, headers, data)

get_explanation_task_validate(data_mart_id, explanation_task_id) ==
  IF data_mart_id = None THEN ValueError("data_mart_id")
  ELSE IF explanation_task_id = None THEN ValueError("explanation_task_id")
  ELSE Passed

get_explanation_task_headers(kwargs) ==
  MergeHeaders(Dict(EmptyMap), kwargs)

(* the path variables put into the template as they are *)
get_explanation_task_url_verbatim(data_mart_id, explanation_task_id) ==
  <<"/", "v1", "/", "data_marts", "/">>
    \o data_mart_id.v
    \o <<"/", "explanation_tasks", "/">>
    \o explanation_task_id.v

get_explanation_task_url(data_mart_id, explanation_task_id) ==
  <<"/", "v1", "/", "data_marts", "/">>
    \o encode_path_vars(data_mart_id)
    \o <<"/", "explanation_tasks", "/">>
    \o encode_path_vars(explanation_task_id)

get_explanation_task(data_mart_id, explanation_task_id, kwargs) ==
  LET checked == get_explanation_task_validate(data_mart_id, explanation_task_id)
      headers == get_explanation_task_headers(kwargs)
      url == get_explanation_task_url(data_mart_id, explanation_task_id)
  IN IF IsRaise(checked) THEN checked
     ELSE IF IsRaise(headers) THEN headers
     ELSE Request("GET", url, headers)

post_explanation_task_validate(data_mart_id, scoring_id) ==
  IF data_mart_id = None THEN ValueError("data_mart_id")
  ELSE IF scoring_id = None THEN ValueError("scoring_id")
  ELSE Passed

post_explanation_task_headers(kwargs) ==
  MergeHeaders(Dict(EmptyMap), kwargs)

(* the scoring id written under the key id *)
post_explanation_task_data_as_id(scoring_id) ==
  Dict([id |-> scoring_id])

post_explanation_task_data(scoring_id) ==
  Dict([scoring_id |-> scoring_id])

post_explanation_task_url(data_mart_id) ==
  <<"/", "v1", "/", "data_marts", "/">>
    \o encode_path_vars(data_mart_id)
    \o <<"/", "explanation_tasks">>

post_explanation_task(data_mart_id, scoring_id, kwargs) ==
  LET checked == post_explanation_task_validate(data_mart_id, scoring_id)
      headers == post_explanation_task_headers(kwargs)
      data == post_explanation_task_data(scoring_id)
      url == post_explanation_task_url(data_mart_id)
  IN IF IsRaise(checked) THEN checked
     ELSE IF IsRaise(headers) THEN headers
     ELSE RequestJson("POST", url, headers, data)

(* values checked before fields *)
fairness_monitoring_debias_validate_values_first(data_mart_id, binding_id, subscription_id, deployment_id, fields, values) ==
  IF data_mart_id = None THEN ValueError("data_mart_id")
  ELSE IF binding_id = None THEN ValueError("binding_id")
  ELSE IF subscription_id = None THEN ValueError("subscription_id")
  ELSE IF deployment_id = None THEN ValueError("deployment_id")
  ELSE IF values = None THEN ValueError("values")
  ELSE IF fields = None THEN ValueError("fields")
  ELSE Passed

fairness_monitoring_debias_validate(data_mart_id, binding_id, subscription_id, deployment_id, fields, values) ==
  IF data_mart_id = None THEN ValueError("data_mart_id")
  ELSE IF binding_id = None THEN ValueError("binding_id")
  ELSE IF subscription_id = None THEN ValueError("subscription_id")
  ELSE IF deployment_id = None THEN ValueError("deployment_id")
  ELSE IF fields = None THEN ValueError("fields")
  ELSE IF values = None THEN ValueError("values")
  ELSE Passed

(* the transaction id header left out *)
fairness_monitoring_debias_headers_without_id(x_global_transaction_id, kwargs) ==
  MergeHeaders(Dict(EmptyMap), kwargs)

(* the operation's own header written over the caller's *)
fairness_monitoring_debias_headers_own_wins(x_global_transaction_id, kwargs) ==
  LET own == Dict([k \in {"X-Global-Transaction-Id"} |-> x_global_transaction_id])
  IN IF "headers" \in DOMAIN kwargs
       THEN IF kwargs["headers"].t = "obj"
              THEN DictUpdate(kwargs["headers"], own)
              ELSE TypeError
       ELSE own

(* the transaction id header set only when a transaction id is given *)
fairness_monitoring_debias_headers_id_when_given(x_global_transaction_id, kwargs) ==
  MergeHeaders(IF x_global_transaction_id = None
                 THEN Dict(EmptyMap)
                 ELSE Dict([k \in {"X-Global-Transaction-Id"} |-> x_global_transaction_id]),
               kwargs)

fairness_monitoring_debias_headers(x_global_transaction_id, kwargs) ==
  MergeHeaders(Dict([k \in {"X-Global-Transaction-Id"} |-> x_global_transaction_id]),
               kwargs)

fairness_monitoring_debias_data(fields, values) ==
  Dict([values |-> values, fields |-> fields])

(* binding id and subscription id in each other's slot *)
fairness_monitoring_debias_url_swapped(data_mart_id, binding_id, subscription_id, deployment_id) ==
  <<"/", "v1", "/", "data_marts", "/">>
    \o encode_path_vars(data_mart_id)
    \o <<"/", "service_bindings", "/">>
    \o encode_path_vars(subscription_id)
    \o <<"/", "subscriptions", "/">>
    \o encode_path_vars(binding_id)
    \o <<"/", "deployments", "/">>
    \o encode_path_vars(deployment_id)
    \o <<"/", "online">>

fairness_monitoring_debias_url(data_mart_id, binding_id, subscription_id, deployment_id) ==
  <<"/", "v1", "/", "data_marts", "/">>
    \o encode_path_vars(data_mart_id)
    \o <<"/", "service_bindings", "/">>
    \o encode_path_vars(binding_id)
    \o <<"/", "subscriptions", "/">>
    \o encode_path_vars(subscription_id)
    \o <<"/", "deployments", "/">>
    \o encode_path_vars(deployment_id)
    \o <<"/", "online">>

fairness_monitoring_debias(data_mart_id, binding_id, subscription_id, deployment_id, fields, values, x_global_transaction_id, kwargs) ==
  LET checked == fairness_monitoring_debias_validate(data_mart_id, binding_id,
                   subscription_id, deployment_id, fields, values)
      headers == fairness_monitoring_debias_headers(x_global_transaction_id, kwargs)
      data == fairness_monitoring_debias_data(fields, values)
      url == fairness_monitoring_debias_url(data_mart_id, binding_id,
                                            subscription_id, deployment_id)
  IN IF IsRaise(checked) THEN checked
     ELSE IF IsRaise(headers) THEN headers
     ELSE RequestJson("POST", url, headers, data)

(***************************************************************************)
(* The model classes.  _from_dict collects the constructor arguments in    *)
(* args, one property after the other, and returns the instance built from them; _to_dict   *)
(* collects the attributes that are not None in _dict.                     *)
(***************************************************************************)
RequiredProperty(property, cls) ==
  [t |-> "raise", kind |-> "ValueError", property |-> property, cls |-> cls]

Put(f, k, val) == [x \in (DOMAIN f) \cup {k} |-> IF x = k THEN val ELSE f[x]]

(* _dict.get(k) *)
Get(dict, k) == IF k \in DOMAIN dict.v THEN dict.v[k] ELSE None

(* k in _dict, for _dict a dictionary; a list or a str that does not hold  *)
(* the property name gives False                                           *)
Contains(dict, k) == dict.t = "obj" /\ k \in DOMAIN dict.v

(* a property whose value is null taken as absent *)
Property_null_as_absent(args, dict, k, value, absent) ==
  IF IsRaise(args) THEN args
  ELSE IF dict.t = "null" THEN TypeError
  ELSE IF Contains(dict, k) /\ dict.v[k] # None
    THEN IF IsRaise(value) THEN value ELSE Dict(Put(args.v, k, value))
    ELSE absent

(* if k in _dict: args[k] = value  [else: raise ...]                       *)
(* k in None raises TypeError; an exception raised while value is computed *)
(* leaves _from_dict.                                                      *)
Property(args, dict, k, value, absent) ==
  IF IsRaise(args) THEN args
  ELSE IF dict.t = "null" THEN TypeError
  ELSE IF Contains(dict, k)
    THEN IF IsRaise(value) THEN value ELSE Dict(Put(args.v, k, value))
    ELSE absent

(* if k in _dict: args[k] = value, for a property with no else branch *)
OptionalProperty(args, dict, k, value) == Property(args, dict, k, value, args)

(* [X._from_dict(x) for x in value], results holding X._from_dict(x) for   *)
(* each x: iterating None raises TypeError, and the first element whose     *)
(* _from_dict raises ends the comprehension                                *)
EachFromDict(value, results) ==
  IF value.t = "null" THEN TypeError
  ELSE LET raised == {i \in 1..Len(value.v) : IsRaise(results[i])}
       IN IF raised = {}
            THEN List(results)
            ELSE results[CHOOSE i \in raised : \A j \in raised : i <= j]

(* the constructor call: __init__ sets every attribute, to None when not    *)
(* passed                                                                  *)
New(cls, attrs, args) ==
  IF IsRaise(args) THEN args
  ELSE [t |-> "inst", cls |-> cls,
        d |-> [a \in attrs |-> IF a \in DOMAIN args.v THEN args.v[a] ELSE None]]

Attr(self, k) == self.d[k]

(* if hasattr(self, k) and self.k is not None: _dict[k] = value *)
Emit(dict, self, k, value) ==
  IF Attr(self, k) # None THEN Dict(Put(dict.v, k, value)) ELSE dict

(* [x._to_dict() for x in value], results holding x._to_dict() for each x *)
EachToDict(results) == List(results)

ExplanationTaskResponseEntityStatus_attrs == {"state", "lime_state", "cem_state"}

ExplanationTaskResponseEntityStatus_from_dict(dict) ==
  LET args0 == Dict(EmptyMap)
      args1 == OptionalProperty(args0, dict, "state", Get(dict, "state"))
      args2 == OptionalProperty(args1, dict, "lime_state", Get(dict, "lime_state"))
      args3 == OptionalProperty(args2, dict, "cem_state", Get(dict, "cem_state"))
  IN New("ExplanationTaskResponseEntityStatus", ExplanationTaskResponseEntityStatus_attrs, args3)

(* state written without the test for None *)
ExplanationTaskResponseEntityStatus_to_dict_state_unguarded(self) ==
  LET dict0 == Dict(EmptyMap)
      dict1 == Dict(Put(dict0.v, "state", Attr(self, "state")))
      dict2 == Emit(dict1, self, "lime_state", Attr(self, "lime_state"))
      dict3 == Emit(dict2, self, "cem_state", Attr(self, "cem_state"))
  IN dict3

ExplanationTaskResponseEntityStatus_to_dict(self) ==
  LET dict0 == Dict(EmptyMap)
      dict1 == Emit(dict0, self, "state", Attr(self, "state"))
      dict2 == Emit(dict1, self, "lime_state", Attr(self, "lime_state"))
      dict3 == Emit(dict2, self, "cem_state", Attr(self, "cem_state"))
  IN dict3

ExplanationTaskResponseEntityAssetDeployment_attrs == {"id", "name"}

ExplanationTaskResponseEntityAssetDeployment_from_dict(dict) ==
  LET args0 == Dict(EmptyMap)
      args1 == OptionalProperty(args0, dict, "id", Get(dict, "id"))
      args2 == OptionalProperty(args1, dict, "name", Get(dict, "name"))
  IN New("ExplanationTaskResponseEntityAssetDeployment", ExplanationTaskResponseEntityAssetDeployment_attrs, args2)

ExplanationTaskResponseEntityAssetDeployment_to_dict(self) ==
  LET dict0 == Dict(EmptyMap)
      dict1 == Emit(dict0, self, "id", Attr(self, "id"))
      dict2 == Emit(dict1, self, "name", Attr(self, "name"))
  IN dict2

ExplanationTaskResponseEntityAsset_attrs == {"id", "name", "type", "deployment"}

(* name taken from the key id *)
ExplanationTaskResponseEntityAsset_from_dict_name_from_id(dict) ==
  LET args0 == Dict(EmptyMap)
      args1 == OptionalProperty(args0, dict, "id", Get(dict, "id"))
      args2 == OptionalProperty(args1, dict, "name", Get(dict, "id"))
      args3 == OptionalProperty(args2, dict, "type", Get(dict, "type"))
      args4 == OptionalProperty(args3, dict, "deployment", ExplanationTaskResponseEntityAssetDeployment_from_dict(Get(dict, "deployment")))
  IN New("ExplanationTaskResponseEntityAsset", ExplanationTaskResponseEntityAsset_attrs, args4)

ExplanationTaskResponseEntityAsset_from_dict(dict) ==
  LET args0 == Dict(EmptyMap)
      args1 == OptionalProperty(args0, dict, "id", Get(dict, "id"))
      args2 == OptionalProperty(args1, dict, "name", Get(dict, "name"))
      args3 == OptionalProperty(args2, dict, "type", Get(dict, "type"))
      args4 == OptionalProperty(args3, dict, "deployment", ExplanationTaskResponseEntityAssetDeployment_from_dict(Get(dict, "deployment")))
  IN New("ExplanationTaskResponseEntityAsset", ExplanationTaskResponseEntityAsset_attrs, args4)

ExplanationTaskResponseEntityAsset_to_dict(self) ==
  LET dict0 == Dict(EmptyMap)
      dict1 == Emit(dict0, self, "id", Attr(self, "id"))
      dict2 == Emit(dict1, self, "name", Attr(self, "name"))
      dict3 == Emit(dict2, self, "type", Attr(self, "type"))
      dict4 == Emit(dict3, self, "deployment", ExplanationTaskResponseEntityAssetDeployment_to_dict(Attr(self, "deployment")))
  IN dict4

ExplanationTaskResponseEntityInputFeature_attrs == {"name", "value", "feature_type"}

ExplanationTaskResponseEntityInputFeature_from_dict(dict) ==
  LET args0 == Dict(EmptyMap)
      args1 == OptionalProperty(args0, dict, "name", Get(dict, "name"))
      args2 == OptionalProperty(args1, dict, "value", Get(dict, "value"))
      args3 == OptionalProperty(args2, dict, "feature_type", Get(dict, "feature_type"))
  IN New("ExplanationTaskResponseEntityInputFeature", ExplanationTaskResponseEntityInputFeature_attrs, args3)

ExplanationTaskResponseEntityInputFeature_to_dict(self) ==
  LET dict0 == Dict(EmptyMap)
      dict1 == Emit(dict0, self, "name", Attr(self, "name"))
      dict2 == Emit(dict1, self, "value", Attr(self, "value"))
      dict3 == Emit(dict2, self, "feature_type", Attr(self, "feature_type"))
  IN dict3

ExplanationTaskResponseEntityExplanationFeatureFeatureRange_attrs == {"min", "min_inclusive", "max", "max_inclusive"}

ExplanationTaskResponseEntityExplanationFeatureFeatureRange_from_dict(dict) ==
  LET args0 == Dict(EmptyMap)
      args1 == OptionalProperty(args0, dict, "min", Get(dict, "min"))
      args2 == OptionalProperty(args1, dict, "min_inclusive", Get(dict, "min_inclusive"))
      args3 == OptionalProperty(args2, dict, "max", Get(dict, "max"))
      args4 == OptionalProperty(args3, dict, "max_inclusive", Get(dict, "max_inclusive"))
  IN New("ExplanationTaskResponseEntityExplanationFeatureFeatureRange", ExplanationTaskResponseEntityExplanationFeatureFeatureRange_attrs, args4)

ExplanationTaskResponseEntityExplanationFeatureFeatureRange_to_dict(self) ==
  LET dict0 == Dict(EmptyMap)
      dict1 == Emit(dict0, self, "min", Attr(self, "min"))
      dict2 == Emit(dict1, self, "min_inclusive", Attr(self, "min_inclusive"))
      dict3 == Emit(dict2, self, "max", Attr(self, "max"))
      dict4 == Emit(dict3, self, "max_inclusive", Attr(self, "max_inclusive"))
  IN dict4

ExplanationTaskResponseEntityExplanationFeature_attrs == {"feature_name", "weight", "importance", "feature_value", "feature_range"}

ExplanationTaskResponseEntityExplanationFeature_from_dict(dict) ==
  LET args0 == Dict(EmptyMap)
      args1 == OptionalProperty(args0, dict, "feature_name", Get(dict, "feature_name"))
      args2 == OptionalProperty(args1, dict, "weight", Get(dict, "weight"))
      args3 == OptionalProperty(args2, dict, "importance", Get(dict, "importance"))
      args4 == OptionalProperty(args3, dict, "feature_value", Get(dict, "feature_value"))
      args5 == OptionalProperty(args4, dict, "feature_range", ExplanationTaskResponseEntityExplanationFeatureFeatureRange_from_dict(Get(dict, "feature_range")))
  IN New("ExplanationTaskResponseEntityExplanationFeature", ExplanationTaskResponseEntityExplanationFeature_attrs, args5)

ExplanationTaskResponseEntityExplanationFeature_to_dict(self) ==
  LET dict0 == Dict(EmptyMap)
      dict1 == Emit(dict0, self, "feature_name", Attr(self, "feature_name"))
      dict2 == Emit(dict1, self, "weight", Attr(self, "weight"))
      dict3 == Emit(dict2, self, "importance", Attr(self, "importance"))
      dict4 == Emit(dict3, self, "feature_value", Attr(self, "feature_value"))
      dict5 == Emit(dict4, self, "feature_range", ExplanationTaskResponseEntityExplanationFeatureFeatureRange_to_dict(Attr(self, "feature_range")))
  IN dict5

ExplanationTaskResponseEntityPrediction_attrs == {"value", "probability", "explanation_features"}

ExplanationTaskResponseEntityPrediction_from_dict(dict) ==
  LET args0 == Dict(EmptyMap)
      args1 == OptionalProperty(args0, dict, "value", Get(dict, "value"))
      args2 == OptionalProperty(args1, dict, "probability", Get(dict, "probability"))
      args3 == OptionalProperty(args2, dict, "explanation_features", EachFromDict(Get(dict, "explanation_features"),
                                 [i \in 1..Len(Get(dict, "explanation_features").v) |-> ExplanationTaskResponseEntityExplanationFeature_from_dict(Get(dict, "explanation_features").v[i])]))
  IN New("ExplanationTaskResponseEntityPrediction", ExplanationTaskResponseEntityPrediction_attrs, args3)

ExplanationTaskResponseEntityPrediction_to_dict(self) ==
  LET dict0 == Dict(EmptyMap)
      dict1 == Emit(dict0, self, "value", Attr(self, "value"))
      dict2 == Emit(dict1, self, "probability", Attr(self, "probability"))
      dict3 == Emit(dict2, self, "explanation_features", EachToDict([i \in 1..Len(Attr(self, "explanation_features").v) |-> ExplanationTaskResponseEntityExplanationFeature_to_dict(Attr(self, "explanation_features").v[i])]))
  IN dict3

ExplanationTaskResponseEntityContrastiveExplanation_attrs == {"pertinent_positive_features", "pertinent_negative_features"}

ExplanationTaskResponseEntityContrastiveExplanation_from_dict(dict) ==
  LET args0 == Dict(EmptyMap)
      args1 == OptionalProperty(args0, dict, "pertinent_positive_features", EachFromDict(Get(dict, "pertinent_positive_features"),
                                 [i \in 1..Len(Get(dict, "pertinent_positive_features").v) |-> ExplanationTaskResponseEntityExplanationFeature_from_dict(Get(dict, "pertinent_positive_features").v[i])]))
      args2 == OptionalProperty(args1, dict, "pertinent_negative_features", EachFromDict(Get(dict, "pertinent_negative_features"),
                                 [i \in 1..Len(Get(dict, "pertinent_negative_features").v) |-> ExplanationTaskResponseEntityExplanationFeature_from_dict(Get(dict, "pertinent_negative_features").v[i])]))
  IN New("ExplanationTaskResponseEntityContrastiveExplanation", ExplanationTaskResponseEntityContrastiveExplanation_attrs, args2)

ExplanationTaskResponseEntityContrastiveExplanation_to_dict(self) ==
  LET dict0 == Dict(EmptyMap)
      dict1 == Emit(dict0, self, "pertinent_positive_features", EachToDict([i \in 1..Len(Attr(self, "pertinent_positive_features").v) |-> ExplanationTaskResponseEntityExplanationFeature_to_dict(Attr(self, "pertinent_positive_features").v[i])]))
      dict2 == Emit(dict1, self, "pertinent_negative_features", EachToDict([i \in 1..Len(Attr(self, "pertinent_negative_features").v) |-> ExplanationTaskResponseEntityExplanationFeature_to_dict(Attr(self, "pertinent_negative_features").v[i])]))
  IN dict2

ExplanationTaskResponseEntity_attrs == {"status", "asset", "input_features", "predictions", "contrastive_explanation"}

ExplanationTaskResponseEntity_from_dict(dict) ==
  LET args0 == Dict(EmptyMap)
      args1 == Property(args0, dict, "status", ExplanationTaskResponseEntityStatus_from_dict(Get(dict, "status")),
                                               RequiredProperty("status", "ExplanationTaskResponseEntity"))
      args2 == OptionalProperty(args1, dict, "asset", ExplanationTaskResponseEntityAsset_from_dict(Get(dict, "asset")))
      args3 == OptionalProperty(args2, dict, "input_features", EachFromDict(Get(dict, "input_features"),
                                 [i \in 1..Len(Get(dict, "input_features").v) |-> ExplanationTaskResponseEntityInputFeature_from_dict(Get(dict, "input_features").v[i])]))
      args4 == OptionalProperty(args3, dict, "predictions", EachFromDict(Get(dict, "predictions"),
                                 [i \in 1..Len(Get(dict, "predictions").v) |-> ExplanationTaskResponseEntityPrediction_from_dict(Get(dict, "predictions").v[i])]))
      args5 == OptionalProperty(args4, dict, "contrastive_explanation", ExplanationTaskResponseEntityContrastiveExplanation_from_dict(Get(dict, "contrastive_explanation")))
  IN New("ExplanationTaskResponseEntity", ExplanationTaskResponseEntity_attrs, args5)

(* predictions left out *)
ExplanationTaskResponseEntity_to_dict_without_predictions(self) ==
  LET dict0 == Dict(EmptyMap)
      dict1 == Emit(dict0, self, "status", ExplanationTaskResponseEntityStatus_to_dict(Attr(self, "status")))
      dict2 == Emit(dict1, self, "asset", ExplanationTaskResponseEntityAsset_to_dict(Attr(self, "asset")))
      dict3 == Emit(dict2, self, "input_features", EachToDict([i \in 1..Len(Attr(self, "input_features").v) |-> ExplanationTaskResponseEntityInputFeature_to_dict(Attr(self, "input_features").v[i])]))
      dict5 == Emit(dict3, self, "contrastive_explanation", ExplanationTaskResponseEntityContrastiveExplanation_to_dict(Attr(self, "contrastive_explanation")))
  IN dict5

ExplanationTaskResponseEntity_to_dict(self) ==
  LET dict0 == Dict(EmptyMap)
      dict1 == Emit(dict0, self, "status", ExplanationTaskResponseEntityStatus_to_dict(Attr(self, "status")))
      dict2 == Emit(dict1, self, "asset", ExplanationTaskResponseEntityAsset_to_dict(Attr(self, "asset")))
      dict3 == Emit(dict2, self, "input_features", EachToDict([i \in 1..Len(Attr(self, "input_features").v) |-> ExplanationTaskResponseEntityInputFeature_to_dict(Attr(self, "input_features").v[i])]))
      dict4 == Emit(dict3, self, "predictions", EachToDict([i \in 1..Len(Attr(self, "predictions").v) |-> ExplanationTaskResponseEntityPrediction_to_dict(Attr(self, "predictions").v[i])]))
      dict5 == Emit(dict4, self, "contrastive_explanation", ExplanationTaskResponseEntityContrastiveExplanation_to_dict(Attr(self, "contrastive_explanation")))
  IN dict5

ExplanationTaskResponseMetadata_attrs == {"id", "created_by", "created_at", "updated_at"}

ExplanationTaskResponseMetadata_from_dict(dict) ==
  LET args0 == Dict(EmptyMap)
      args1 == Property(args0, dict, "id", Get(dict, "id"),
                                           RequiredProperty("id", "ExplanationTaskResponseMetadata"))
      args2 == Property(args1, dict, "created_by", Get(dict, "created_by"),
                                                   RequiredProperty("created_by", "ExplanationTaskResponseMetadata"))
      args3 == Property(args2, dict, "created_at", Get(dict, "created_at"),
                                                   RequiredProperty("created_at", "ExplanationTaskResponseMetadata"))
      args4 == OptionalProperty(args3, dict, "updated_at", Get(dict, "updated_at"))
  IN New("ExplanationTaskResponseMetadata", ExplanationTaskResponseMetadata_attrs, args4)

ExplanationTaskResponseMetadata_to_dict(self) ==
  LET dict0 == Dict(EmptyMap)
      dict1 == Emit(dict0, self, "id", Attr(self, "id"))
      dict2 == Emit(dict1, self, "created_by", Attr(self, "created_by"))
      dict3 == Emit(dict2, self, "created_at", Attr(self, "created_at"))
      dict4 == Emit(dict3, self, "updated_at", Attr(self, "updated_at"))
  IN dict4

FairnessMonitoringRemediationResponse_attrs == {"fields", "values"}

FairnessMonitoringRemediationResponse_from_dict(dict) ==
  LET args0 == Dict(EmptyMap)
      args1 == Property(args0, dict, "fields", Get(dict, "fields"),
                                               RequiredProperty("fields", "FairnessMonitoringRemediationResponse"))
      args2 == Property(args1, dict, "values", Get(dict, "values"),
                                               RequiredProperty("values", "FairnessMonitoringRemediationResponse"))
  IN New("FairnessMonitoringRemediationResponse", FairnessMonitoringRemediationResponse_attrs, args2)

FairnessMonitoringRemediationResponse_to_dict(self) ==
  LET dict0 == Dict(EmptyMap)
      dict1 == Emit(dict0, self, "fields", Attr(self, "fields"))
      dict2 == Emit(dict1, self, "values", Attr(self, "values"))
  IN dict2

GetExplanationTaskResponse_attrs == {"metadata", "entity"}

GetExplanationTaskResponse_from_dict(dict) ==
  LET args0 == Dict(EmptyMap)
      args1 == Property(args0, dict, "metadata", ExplanationTaskResponseMetadata_from_dict(Get(dict, "metadata")),
                                                 RequiredProperty("metadata", "GetExplanationTaskResponse"))
      args2 == Property(args1, dict, "entity", ExplanationTaskResponseEntity_from_dict(Get(dict, "entity")),
                                               RequiredProperty("entity", "GetExplanationTaskResponse"))
  IN New("GetExplanationTaskResponse", GetExplanationTaskResponse_attrs, args2)

GetExplanationTaskResponse_to_dict(self) ==
  LET dict0 == Dict(EmptyMap)
      dict1 == Emit(dict0, self, "metadata", ExplanationTaskResponseMetadata_to_dict(Attr(self, "metadata")))
      dict2 == Emit(dict1, self, "entity", ExplanationTaskResponseEntity_to_dict(Attr(self, "entity")))
  IN dict2

PostExplanationTaskResponseEntityStatus_attrs == {"state"}

PostExplanationTaskResponseEntityStatus_from_dict(dict) ==
  LET args0 == Dict(EmptyMap)
      args1 == OptionalProperty(args0, dict, "state", Get(dict, "state"))
  IN New("PostExplanationTaskResponseEntityStatus", PostExplanationTaskResponseEntityStatus_attrs, args1)

PostExplanationTaskResponseEntityStatus_to_dict(self) ==
  LET dict0 == Dict(EmptyMap)
      dict1 == Emit(dict0, self, "state", Attr(self, "state"))
  IN dict1

PostExplanationTaskResponseEntity_attrs == {"status"}

PostExplanationTaskResponseEntity_from_dict(dict) ==
  LET args0 == Dict(EmptyMap)
      args1 == Property(args0, dict, "status", PostExplanationTaskResponseEntityStatus_from_dict(Get(dict, "status")),
                                               RequiredProperty("status", "PostExplanationTaskResponseEntity"))
  IN New("PostExplanationTaskResponseEntity", PostExplanationTaskResponseEntity_attrs, args1)

PostExplanationTaskResponseEntity_to_dict(self) ==
  LET dict0 == Dict(EmptyMap)
      dict1 == Emit(dict0, self, "status", PostExplanationTaskResponseEntityStatus_to_dict(Attr(self, "status")))
  IN dict1

PostExplanationTaskResponse_attrs == {"metadata", "entity"}

PostExplanationTaskResponse_from_dict(dict) ==
  LET args0 == Dict(EmptyMap)
      args1 == Property(args0, dict, "metadata", ExplanationTaskResponseMetadata_from_dict(Get(dict, "metadata")),
                                                 RequiredProperty("metadata", "PostExplanationTaskResponse"))
      args2 == Property(args1, dict, "entity", PostExplanationTaskResponseEntity_from_dict(Get(dict, "entity")),
                                               RequiredProperty("entity", "PostExplanationTaskResponse"))
  IN New("PostExplanationTaskResponse", PostExplanationTaskResponse_attrs, args2)

PostExplanationTaskResponse_to_dict(self) ==
  LET dict0 == Dict(EmptyMap)
      dict1 == Emit(dict0, self, "metadata", ExplanationTaskResponseMetadata_to_dict(Attr(self, "metadata")))
      dict2 == Emit(dict1, self, "entity", PostExplanationTaskResponseEntity_to_dict(Attr(self, "entity")))
  IN dict2

Classes ==
  {"ExplanationTaskResponseEntityStatus",
   "ExplanationTaskResponseEntityAssetDeployment",
   "ExplanationTaskResponseEntityAsset",
   "ExplanationTaskResponseEntityInputFeature",
   "ExplanationTaskResponseEntityExplanationFeatureFeatureRange",
   "ExplanationTaskResponseEntityExplanationFeature",
   "ExplanationTaskResponseEntityPrediction",
   "ExplanationTaskResponseEntityContrastiveExplanation",
   "ExplanationTaskResponseEntity",
   "ExplanationTaskResponseMetadata",
   "FairnessMonitoringRemediationResponse",
   "GetExplanationTaskResponse",
   "PostExplanationTaskResponseEntityStatus",
   "PostExplanationTaskResponseEntity",
   "PostExplanationTaskResponse"}

(* cls._from_dict(dict) and self._to_dict(), by the name of the class *)
from_dict(cls, dict) ==
  CASE cls = "ExplanationTaskResponseEntityStatus" ->
         ExplanationTaskResponseEntityStatus_from_dict(dict)
    [] cls = "ExplanationTaskResponseEntityAssetDeployment" ->
         ExplanationTaskResponseEntityAssetDeployment_from_dict(dict)
    [] cls = "ExplanationTaskResponseEntityAsset" ->
         ExplanationTaskResponseEntityAsset_from_dict(dict)
    [] cls = "ExplanationTaskResponseEntityInputFeature" ->
         ExplanationTaskResponseEntityInputFeature_from_dict(dict)
    [] cls = "ExplanationTaskResponseEntityExplanationFeatureFeatureRange" ->
         ExplanationTaskResponseEntityExplanationFeatureFeatureRange_from_dict(dict)
    [] cls = "ExplanationTaskResponseEntityExplanationFeature" ->
         ExplanationTaskResponseEntityExplanationFeature_from_dict(dict)
    [] cls = "ExplanationTaskResponseEntityPrediction" ->
         ExplanationTaskResponseEntityPrediction_from_dict(dict)
    [] cls = "ExplanationTaskResponseEntityContrastiveExplanation" ->
         ExplanationTaskResponseEntityContrastiveExplanation_from_dict(dict)
    [] cls = "ExplanationTaskResponseEntity" ->
         ExplanationTaskResponseEntity_from_dict(dict)
    [] cls = "ExplanationTaskResponseMetadata" ->
         ExplanationTaskResponseMetadata_from_dict(dict)
    [] cls = "FairnessMonitoringRemediationResponse" ->
         FairnessMonitoringRemediationResponse_from_dict(dict)
    [] cls = "GetExplanationTaskResponse" ->
         GetExplanationTaskResponse_from_dict(dict)
    [] cls = "PostExplanationTaskResponseEntityStatus" ->
         PostExplanationTaskResponseEntityStatus_from_dict(dict)
    [] cls = "PostExplanationTaskResponseEntity" ->
         PostExplanationTaskResponseEntity_from_dict(dict)
    [] cls = "PostExplanationTaskResponse" ->
         PostExplanationTaskResponse_from_dict(dict)

to_dict(cls, self) ==
  CASE cls = "ExplanationTaskResponseEntityStatus" ->
         ExplanationTaskResponseEntityStatus_to_dict(self)
    [] cls = "ExplanationTaskResponseEntityAssetDeployment" ->
         ExplanationTaskResponseEntityAssetDeployment_to_dict(self)
    [] cls = "ExplanationTaskResponseEntityAsset" ->
         ExplanationTaskResponseEntityAsset_to_dict(self)
    [] cls = "ExplanationTaskResponseEntityInputFeature" ->
         ExplanationTaskResponseEntityInputFeature_to_dict(self)
    [] cls = "ExplanationTaskResponseEntityExplanationFeatureFeatureRange" ->
         ExplanationTaskResponseEntityExplanationFeatureFeatureRange_to_dict(self)
    [] cls = "ExplanationTaskResponseEntityExplanationFeature" ->
         ExplanationTaskResponseEntityExplanationFeature_to_dict(self)
    [] cls = "ExplanationTaskResponseEntityPrediction" ->
         ExplanationTaskResponseEntityPrediction_to_dict(self)
    [] cls = "ExplanationTaskResponseEntityContrastiveExplanation" ->
         ExplanationTaskResponseEntityContrastiveExplanation_to_dict(self)
    [] cls = "ExplanationTaskResponseEntity" ->
         ExplanationTaskResponseEntity_to_dict(self)
    [] cls = "ExplanationTaskResponseMetadata" ->
         ExplanationTaskResponseMetadata_to_dict(self)
    [] cls = "FairnessMonitoringRemediationResponse" ->
         FairnessMonitoringRemediationResponse_to_dict(self)
    [] cls = "GetExplanationTaskResponse" ->
         GetExplanationTaskResponse_to_dict(self)
    [] cls = "PostExplanationTaskResponseEntityStatus" ->
         PostExplanationTaskResponseEntityStatus_to_dict(self)
    [] cls = "PostExplanationTaskResponseEntity" ->
         PostExplanationTaskResponseEntity_to_dict(self)
    [] cls = "PostExplanationTaskResponse" ->
         PostExplanationTaskResponse_to_dict(self)

(* the attributes of each class, those its constructor requires, and the *)
(* class of each attribute that holds an instance or a list of instances  *)
Attrs(cls) ==
  CASE cls = "ExplanationTaskResponseEntityStatus" ->
         ExplanationTaskResponseEntityStatus_attrs
    [] cls = "ExplanationTaskResponseEntityAssetDeployment" ->
         ExplanationTaskResponseEntityAssetDeployment_attrs
    [] cls = "ExplanationTaskResponseEntityAsset" ->
         ExplanationTaskResponseEntityAsset_attrs
    [] cls = "ExplanationTaskResponseEntityInputFeature" ->
         ExplanationTaskResponseEntityInputFeature_attrs
    [] cls = "ExplanationTaskResponseEntityExplanationFeatureFeatureRange" ->
         ExplanationTaskResponseEntityExplanationFeatureFeatureRange_attrs
    [] cls = "ExplanationTaskResponseEntityExplanationFeature" ->
         ExplanationTaskResponseEntityExplanationFeature_attrs
    [] cls = "ExplanationTaskResponseEntityPrediction" ->
         ExplanationTaskResponseEntityPrediction_attrs
    [] cls = "ExplanationTaskResponseEntityContrastiveExplanation" ->
         ExplanationTaskResponseEntityContrastiveExplanation_attrs
    [] cls = "ExplanationTaskResponseEntity" ->
         ExplanationTaskResponseEntity_attrs
    [] cls = "ExplanationTaskResponseMetadata" ->
         ExplanationTaskResponseMetadata_attrs
    [] cls = "FairnessMonitoringRemediationResponse" ->
         FairnessMonitoringRemediationResponse_attrs
    [] cls = "GetExplanationTaskResponse" ->
         GetExplanationTaskResponse_attrs
    [] cls = "PostExplanationTaskResponseEntityStatus" ->
         PostExplanationTaskResponseEntityStatus_attrs
    [] cls = "PostExplanationTaskResponseEntity" ->
         PostExplanationTaskResponseEntity_attrs
    [] cls = "PostExplanationTaskResponse" ->
         PostExplanationTaskResponse_attrs

RequiredAttrs(cls) ==
  CASE cls = "ExplanationTaskResponseEntity" -> {"status"}
    [] cls = "ExplanationTaskResponseMetadata" -> {"id", "created_by", "created_at"}
    [] cls = "FairnessMonitoringRemediationResponse" -> {"fields", "values"}
    [] cls = "GetExplanationTaskResponse" -> {"metadata", "entity"}
    [] cls = "PostExplanationTaskResponseEntity" -> {"status"}
    [] cls = "PostExplanationTaskResponse" -> {"metadata", "entity"}
    [] OTHER -> {}

InstanceAttrs(cls) ==
  CASE cls = "ExplanationTaskResponseEntityAsset" ->
         ("deployment" :> "ExplanationTaskResponseEntityAssetDeployment")
    [] cls = "ExplanationTaskResponseEntityExplanationFeature" ->
         ("feature_range" :> "ExplanationTaskResponseEntityExplanationFeatureFeatureRange")
    [] cls = "ExplanationTaskResponseEntity" ->
         ("status" :> "ExplanationTaskResponseEntityStatus") @@ ("asset" :> "ExplanationTaskResponseEntityAsset") @@ ("contrastive_explanation" :> "ExplanationTaskResponseEntityContrastiveExplanation")
    [] cls = "GetExplanationTaskResponse" ->
         ("metadata" :> "ExplanationTaskResponseMetadata") @@ ("entity" :> "ExplanationTaskResponseEntity")
    [] cls = "PostExplanationTaskResponseEntity" ->
         ("status" :> "PostExplanationTaskResponseEntityStatus")
    [] cls = "PostExplanationTaskResponse" ->
         ("metadata" :> "ExplanationTaskResponseMetadata") @@ ("entity" :> "PostExplanationTaskResponseEntity")
    [] OTHER -> EmptyMap

ListAttrs(cls) ==
  CASE cls = "ExplanationTaskResponseEntityPrediction" ->
         ("explanation_features" :> "ExplanationTaskResponseEntityExplanationFeature")
    [] cls = "ExplanationTaskResponseEntityContrastiveExplanation" ->
         ("pertinent_positive_features" :> "ExplanationTaskResponseEntityExplanationFeature") @@ ("pertinent_negative_features" :> "ExplanationTaskResponseEntityExplanationFeature")
    [] cls = "ExplanationTaskResponseEntity" ->
         ("input_features" :> "ExplanationTaskResponseEntityInputFeature") @@ ("predictions" :> "ExplanationTaskResponseEntityPrediction")
    [] OTHER -> EmptyMap

ScalarAttrs(cls) == Attrs(cls) \ ((DOMAIN InstanceAttrs(cls)) \cup (DOMAIN ListAttrs(cls)))

(***************************************************************************)
(* Equality.  Every model class has the same __eq__ and __ne__; == on the  *)
(* two __dict__ compares the keys and, key by key, the values with ==,     *)
(* which is __eq__ again for a nested instance and element by element for  *)
(* a list.                                                                 *)
(***************************************************************************)
(* any instance taken for an instance of the class *)
isinstance_of_any_class(other, cls) == other.t = "inst"

isinstance(other, cls) == other.t = "inst" /\ other.cls = cls

RECURSIVE PyEq(_, _), __eq__(_, _)
(* a == b *)
PyEq(a, b) ==
  IF a.t = "inst" THEN __eq__(a, b)
  ELSE IF a.t # b.t THEN FALSE
  ELSE CASE a.t = "list" ->
              /\ Len(a.v) = Len(b.v)
              /\ \A i \in 1..Len(a.v) : PyEq(a.v[i], b.v[i])
         [] a.t = "obj" ->
              /\ DOMAIN a.v = DOMAIN b.v
              /\ \A k \in DOMAIN a.v : PyEq(a.v[k], b.v[k])
         [] a.t = "str" -> a.v = b.v
         [] OTHER -> TRUE

(* the two __dict__ compared by their keys alone *)
__eq___keys_only(self, other) ==
  IF ~isinstance(other, self.cls) THEN FALSE
  ELSE DOMAIN self.d = DOMAIN other.d

__eq__(self, other) ==
  IF ~isinstance(other, self.cls) THEN FALSE
  ELSE /\ DOMAIN self.d = DOMAIN other.d
       /\ \A k \in DOMAIN self.d : PyEq(self.d[k], other.d[k])

__ne__(self, other) == ~__eq__(self, other)

(***************************************************************************)
(* JSON dictionaries and instances the codec is exercised on               *)
(***************************************************************************)
MaxListLen == 2
MaxApplied == 2

ScalarValue == Str(<<"a">>)
OtherScalarValue == Str(<<"b">>)
UnknownKey == "unknown_key"

RECURSIVE FullDict(_), MinimalDict(_), NullScalarsDict(_)
(* every property present, at every depth *)
FullDict(cls) ==
  Dict([k \in Attrs(cls) |->
          IF k \in DOMAIN InstanceAttrs(cls) THEN FullDict(InstanceAttrs(cls)[k])
          ELSE IF k \in DOMAIN ListAttrs(cls) THEN List(<<FullDict(ListAttrs(cls)[k])>>)
          ELSE ScalarValue])

(* the required properties only, and a key no class declares *)
MinimalDict(cls) ==
  Dict([k \in RequiredAttrs(cls) \cup {UnknownKey} |->
          IF k \in DOMAIN InstanceAttrs(cls) THEN MinimalDict(InstanceAttrs(cls)[k])
          ELSE ScalarValue])

(* every scalar property null *)
NullScalarsDict(cls) ==
  Dict([k \in Attrs(cls) |->
          IF k \in DOMAIN InstanceAttrs(cls) THEN MinimalDict(InstanceAttrs(cls)[k])
          ELSE IF k \in DOMAIN ListAttrs(cls) THEN List(<<>>)
          ELSE None])

SampleDicts(cls) ==
  {Dict(EmptyMap), FullDict(cls), MinimalDict(cls), NullScalarsDict(cls)}

SampleDictAt(cls, i) ==
  CASE i % 4 = 1 -> FullDict(cls)
    [] i % 4 = 2 -> NullScalarsDict(cls)
    [] i % 4 = 3 -> MinimalDict(cls)
    [] OTHER -> Dict(EmptyMap)

(* the values of a property of type object *)
ObjectValues == {List(<<ScalarValue>>), List(<<List(<<ScalarValue, None>>)>>)}

ScalarValues(cls) ==
  IF cls = "FairnessMonitoringRemediationResponse"
    THEN ObjectValues
    ELSE {ScalarValue, OtherScalarValue}

JsonValues(cls, k) ==
  IF k = UnknownKey THEN {ScalarValue}
  ELSE IF k \in DOMAIN InstanceAttrs(cls)
    THEN {None} \cup SampleDicts(InstanceAttrs(cls)[k])
  ELSE IF k \in DOMAIN ListAttrs(cls)
    THEN {None} \cup {List([i \in 1..n |-> SampleDictAt(ListAttrs(cls)[k], i)]) :
                        n \in 0..MaxListLen}
  ELSE {None} \cup ScalarValues(cls)

RECURSIVE JsonDictsOver(_, _)
JsonDictsOver(cls, keys) ==
  IF keys = {} THEN {EmptyMap}
  ELSE LET k == CHOOSE x \in keys : TRUE
           rest == JsonDictsOver(cls, keys \ {k})
       IN rest \cup {Put(f, k, val) : f \in rest, val \in JsonValues(cls, k)}

(* the dictionaries over the properties of cls and the unknown key: each   *)
(* key absent or present, a present one null or holding a value            *)
JsonDicts(cls) == {Dict(f) : f \in JsonDictsOver(cls, Attrs(cls) \cup {UnknownKey})}

Instance(cls, d) == [t |-> "inst", cls |-> cls, d |-> d]

RECURSIVE FullInstance(_), MinimalInstance(_)
FullInstance(cls) ==
  Instance(cls, [k \in Attrs(cls) |->
          IF k \in DOMAIN InstanceAttrs(cls) THEN FullInstance(InstanceAttrs(cls)[k])
          ELSE IF k \in DOMAIN ListAttrs(cls) THEN List(<<FullInstance(ListAttrs(cls)[k])>>)
          ELSE ScalarValue])

MinimalInstance(cls) ==
  Instance(cls, [k \in Attrs(cls) |->
          IF k \notin RequiredAttrs(cls) THEN None
          ELSE IF k \in DOMAIN InstanceAttrs(cls) THEN MinimalInstance(InstanceAttrs(cls)[k])
          ELSE ScalarValue])

EmptyInstance(cls) == Instance(cls, [k \in Attrs(cls) |-> None])

SampleInstances(cls) == {FullInstance(cls), MinimalInstance(cls), EmptyInstance(cls)}

SampleInstanceAt(cls, i) ==
  CASE i % 3 = 1 -> FullInstance(cls)
    [] i % 3 = 2 -> MinimalInstance(cls)
    [] OTHER -> EmptyInstance(cls)

AttrValues(cls, k) ==
  IF k \in DOMAIN InstanceAttrs(cls)
    THEN {None} \cup SampleInstances(InstanceAttrs(cls)[k])
  ELSE IF k \in DOMAIN ListAttrs(cls)
    THEN {None} \cup {List([i \in 1..n |-> SampleInstanceAt(ListAttrs(cls)[k], i)]) :
                        n \in 0..MaxListLen}
  ELSE {None} \cup ScalarValues(cls)

RECURSIVE AttrMapsOver(_, _)
AttrMapsOver(cls, keys) ==
  IF keys = {} THEN {EmptyMap}
  ELSE LET k == CHOOSE x \in keys : TRUE
           rest == AttrMapsOver(cls, keys \ {k})
       IN {Put(f, k, val) : f \in rest, val \in AttrValues(cls, k)}

(* the instances of cls: every attribute None or holding a value *)
Instances(cls) == {Instance(cls, d) : d \in AttrMapsOver(cls, Attrs(cls))}

(***************************************************************************)
(* Arguments the caller may pass                                           *)
(***************************************************************************)
DataMartIds == {None, Str(<<"d", "/", "m">>)}
BindingIds == {None, Str(<<"b", "1">>)}
SubscriptionIds == {None, Str(<<"s", "1">>)}
DeploymentIds == {None, Str(<<"p", "1">>)}
TaskIds == {None, Str(<<>>), Str(<<"t", "1">>), Str(<<"%", "t">>), Str(<<"?", "#">>)}
ScoringIds == {None, Str(<<>>), Str(<<"s", "c">>)}
FieldsArgs == {None, List(<<Str(<<"f">>)>>)}
ValuesArgs == {None, List(<<>>), List(<<List(<<Str(<<"v">>)>>)>>)}
TransactionIds == {None, Str(<<"t", "x">>)}
Kwargs ==
  { EmptyMap,
    [headers |-> None],
    [headers |-> Dict([k \in {"X-Global-Transaction-Id"} |-> Str(<<"c">>)])],
    [headers |-> Dict([k \in {"Accept-Language"} |-> Str(<<"e", "n">>)])] }

(* the JSON the service answers a submitted explanation task with, and a   *)
(* fetched one with: metadata carrying the task id, entity carrying the    *)
(* state of the task                                                       *)
ReturnedTaskId == Str(<<"t", "1">>)
TaskStates == {Str(<<"in_progress">>), Str(<<"finished">>)}
TaskJson(state) ==
  Dict([metadata |-> Dict([id |-> ReturnedTaskId,
                           created_by |-> Str(<<"u">>),
                           created_at |-> Str(<<"0">>)]),
        entity |-> Dict([status |-> Dict([state |-> state])])])

Response(result) == [t |-> "response", result |-> result, status |-> 200]

(* what self.request gives back: a DetailedResponse, or an exception of    *)
(* the transport                                                           *)
TransportOutcomes(op) ==
  {[t |-> "raise", kind |-> "WatsonApiException"]}
    \cup (CASE op = "get_explanation_task" -> {Response(TaskJson(st)) : st \in TaskStates}
            [] op = "post_explanation_task" -> {Response(TaskJson(Str(<<"in_progress">>)))}
            [] OTHER -> {Response(Dict(EmptyMap))})

(* response = self.request(...); return response: the handler gives back    *)
(* what the transport gave it, and an exception of the transport leaves the *)
(* handler                                                                  *)
Return_none_on_failure(response) ==
  IF IsRaise(response) THEN None ELSE response

Return(response) == response

(* the caller keeps the id a submitted explanation task came back with, to  *)
(* fetch the task later                                                     *)
HeldTask(held, op, args, out, resp) ==
  IF op = "post_explanation_task" /\ ~IsRaise(out) /\ resp.t = "response"
    THEN LET decoded == from_dict("PostExplanationTaskResponse", resp.result)
         IN [data_mart_id |-> args.data_mart_id, id |-> decoded.d["metadata"].d["id"]]
    ELSE held

(* the headers an operation makes of its own parameters, before the        *)
(* caller's are merged in                                                  *)
OwnHeaders(op, args) ==
  IF op = "fairness_monitoring_debias"
    THEN Dict([k \in {"X-Global-Transaction-Id"} |-> args.x_global_transaction_id])
    ELSE Dict(EmptyMap)

(* the caller's mapping made the handler's headers and written to *)
UpdateArgAfter_aliased(headers, other) ==
  IF other.t = "obj" THEN DictUpdate(other, headers) ELSE other

(* kwargs.get('headers') after headers.update(kwargs.get('headers')):      *)
(* update writes to headers, the dictionary the handler made, and only     *)
(* reads its argument                                                      *)
UpdateArgAfter(headers, other) == other

(* the caller's headers mapping as a call leaves it: a call that fails its *)
(* parameter checks does not get as far as the update                      *)
OverridesAfter(op, args, kwargs, checked) ==
  IF "headers" \notin DOMAIN kwargs THEN Absent
  ELSE IF IsRaise(checked) THEN kwargs["headers"]
  ELSE UpdateArgAfter(OwnHeaders(op, args), kwargs["headers"])

(* the keyword arguments of a call: a mapping made for the call, or the    *)
(* mapping passed to the call before, passed again                         *)
KwargsNow ==
  Kwargs \cup (IF overrides = Absent THEN {} ELSE {[headers |-> overrides]})

(* One call of an operation: the handler runs to its end.  When it gets as *)
(* far as self.request the request is handed over, once, and what the      *)
(* transport gives back is what the call returns or raises.                *)
Call(op, args, kwargs, checked, out, resp) ==
  /\ ncalls < MaxCalls
  /\ ncalls' = ncalls + 1
  /\ npassed' = IF IsRaise(checked) THEN npassed ELSE npassed + 1
  /\ task' = HeldTask(task, op, args, out, resp)
  /\ overrides' = OverridesAfter(op, args, kwargs, checked)
  /\ last' = CallRecord(op, args, kwargs, IF IsRaise(out) THEN out ELSE Return(resp))
  /\ IF IsRaise(out)
       THEN /\ request' = Absent
            /\ outcome' = Absent
            /\ UNCHANGED nrequests
       ELSE /\ request' = out
            /\ outcome' = resp
            /\ nrequests' = nrequests + 1
  /\ UNCHANGED <<codecVars, concVars>>

PostFeedbackPayload ==
  \E d \in DataMartIds, b \in BindingIds, s \in SubscriptionIds,
     v \in ValuesArgs, f \in FieldsArgs, kw \in KwargsNow,
     resp \in TransportOutcomes("post_feedback_payload") :
    Call("post_feedback_payload",
         [data_mart_id |-> d, binding_id |-> b, subscription_id |-> s,
          values |-> v, fields |-> f],
         kw, post_feedback_payload_validate(d, b, s, v),
         post_feedback_payload(d, b, s, v, f, kw), resp)

GetExplanationTask ==
  \E d \in DataMartIds, e \in TaskIds, kw \in KwargsNow,
     resp \in TransportOutcomes("get_explanation_task") :
    Call("get_explanation_task",
         [data_mart_id |-> d, explanation_task_id |-> e],
         kw, get_explanation_task_validate(d, e),
         get_explanation_task(d, e, kw), resp)

PostExplanationTask ==
  \E d \in DataMartIds, s \in ScoringIds, kw \in KwargsNow,
     resp \in TransportOutcomes("post_explanation_task") :
    Call("post_explanation_task",
         [data_mart_id |-> d, scoring_id |-> s],
         kw, post_explanation_task_validate(d, s),
         post_explanation_task(d, s, kw), resp)

FairnessMonitoringDebias ==
  \E d \in DataMartIds, b \in BindingIds, s \in SubscriptionIds, p \in DeploymentIds,
     f \in FieldsArgs, v \in ValuesArgs, x \in TransactionIds, kw \in KwargsNow,
     resp \in TransportOutcomes("fairness_monitoring_debias") :
    Call("fairness_monitoring_debias",
         [data_mart_id |-> d, binding_id |-> b, subscription_id |-> s,
          values |-> v, fields |-> f, deployment_id |-> p,
          x_global_transaction_id |-> x],
         kw, fairness_monitoring_debias_validate(d, b, s, p, f, v),
         fairness_monitoring_debias(d, b, s, p, f, v, x, kw), resp)

CodecIdle ==
  /\ curClass = "none"
  /\ curInput = Absent
  /\ curDict = Absent
  /\ curObj = Absent
  /\ applied = <<>>
  /\ again = Absent
  /\ curOther = Absent
  /\ curEq = Absent

(* AiOpenScaleV1(): the instance as __init__ leaves it *)
default_url == "https://api.aiopenscale.cloud.ibm.com"
NewClient ==
  [url |-> default_url, vcap_services_name |-> "ai_openscale", use_vcap_services |-> TRUE]

Threads == 1..MaxThreads
NoFrame == [result |-> Absent, url |-> Absent, headers |-> Absent, data |-> Absent,
            call |-> NoCall, handed |-> Absent]

ConcIdle ==
  /\ client = NewClient
  /\ pc = [t \in Threads |-> "idle"]
  /\ frame = [t \in Threads |-> NoFrame]

OpIdle ==
  /\ last = NoCall
  /\ request = Absent
  /\ nrequests = 0
  /\ ncalls = 0
  /\ npassed = 0
  /\ outcome = Absent
  /\ overrides = Absent
  /\ task = Absent

Init ==
  /\ OpIdle
  /\ CodecIdle
  /\ ConcIdle

Next ==
  \/ PostFeedbackPayload
  \/ GetExplanationTask
  \/ PostExplanationTask
  \/ FairnessMonitoringDebias

Spec == Init /\ [][Next]_vars

(***************************************************************************)
(* The codec exercised: a class and a dictionary or an instance are        *)
(* chosen, and _from_dict and _to_dict are applied in turn, each to what   *)
(* the one before returned.                                                *)
(***************************************************************************)
CodecInit ==
  /\ OpIdle
  /\ ConcIdle
  /\ curClass \in Classes
  /\ curInput \in JsonDicts(curClass) \cup Instances(curClass)
  /\ curDict = Absent
  /\ curObj = Absent
  /\ applied = <<>>
  /\ again = Absent
  /\ curOther = Absent
  /\ curEq = Absent

(* _dict after 'k in _dict' and _dict.get(k) with the key taken out *)
AfterGet_pop(dict, k) ==
  Dict([x \in (DOMAIN dict.v) \ {k} |-> dict.v[x]])

(* _dict after 'k in _dict' and _dict.get(k): neither writes to it *)
AfterGet(dict, k) == dict

RECURSIVE DictAfterFromDict(_, _), AfterProperties(_, _, _)
(* the dictionary handed to _from_dict of cls as the call leaves it: the    *)
(* declared properties are looked up with in and get, and a nested          *)
(* dictionary or the dictionaries of a list are handed to the nested        *)
(* _from_dict; nothing else touches it, wherever the method stops           *)
DictAfterFromDict(cls, dict) ==
  IF dict.t # "obj" THEN dict
  ELSE AfterProperties(cls, dict, Attrs(cls) \cap DOMAIN dict.v)

AfterProperties(cls, dict, keys) ==
  IF keys = {} THEN dict
  ELSE LET k == CHOOSE x \in keys : TRUE
           read == AfterGet(dict, k)
           value == read.v[k]
           nested ==
             IF k \notin DOMAIN read.v THEN read
             ELSE IF k \in DOMAIN InstanceAttrs(cls)
               THEN Dict(Put(read.v, k, DictAfterFromDict(InstanceAttrs(cls)[k], value)))
             ELSE IF k \in DOMAIN ListAttrs(cls) /\ value.t = "list"
               THEN Dict(Put(read.v, k,
                      List([i \in 1..Len(value.v) |->
                              DictAfterFromDict(ListAttrs(cls)[k], value.v[i])])))
             ELSE read
       IN AfterProperties(cls, nested, keys \ {k})

(* self after hasattr(self, k) and self.k: neither writes to it *)
AfterGetattr(self, k) == self

RECURSIVE SelfAfterToDict(_, _), AfterAttrs(_, _, _)
(* the instance _to_dict of cls is called on as the call leaves it: the     *)
(* attributes are read, and a nested instance or the instances of a list    *)
(* have their own _to_dict called                                           *)
SelfAfterToDict(cls, self) ==
  IF self.t # "inst" THEN self
  ELSE AfterAttrs(cls, self, Attrs(cls))

AfterAttrs(cls, self, keys) ==
  IF keys = {} THEN self
  ELSE LET k == CHOOSE x \in keys : TRUE
           read == AfterGetattr(self, k)
           value == read.d[k]
           nested ==
             IF k \in DOMAIN InstanceAttrs(cls)
               THEN Instance(cls, Put(read.d, k, SelfAfterToDict(InstanceAttrs(cls)[k], value)))
             ELSE IF k \in DOMAIN ListAttrs(cls) /\ value.t = "list"
               THEN Instance(cls, Put(read.d, k,
                      List([i \in 1..Len(value.v) |->
                              SelfAfterToDict(ListAttrs(cls)[k], value.v[i])])))
             ELSE read
       IN AfterAttrs(cls, nested, keys \ {k})

(* the argument of a codec call as the call leaves it, kept where the       *)
(* argument was held: the input on the first call, the result of the call  *)
(* before on the later ones                                                *)
DictLeftAs(first, dict) ==
  IF first THEN curInput' = dict /\ UNCHANGED curDict
           ELSE curDict' = dict /\ UNCHANGED curInput

SelfLeftAs(first, self) ==
  IF first THEN curInput' = self /\ UNCHANGED curObj
           ELSE curObj' = self /\ UNCHANGED curInput

FromDict ==
  /\ Len(applied) < MaxApplied
  /\ again = Absent
  /\ IF applied = <<>> THEN curInput.t = "obj" ELSE applied[Len(applied)] = "_to_dict"
  /\ curObj' = from_dict(curClass, IF applied = <<>> THEN curInput ELSE curDict)
  /\ DictLeftAs(applied = <<>>,
                DictAfterFromDict(curClass, IF applied = <<>> THEN curInput ELSE curDict))
  /\ applied' = Append(applied, "_from_dict")
  /\ UNCHANGED <<curClass, again, curOther, curEq, opVars, concVars>>

ToDict ==
  /\ Len(applied) < MaxApplied
  /\ again = Absent
  /\ IF applied = <<>> THEN curInput.t = "inst"
                       ELSE applied[Len(applied)] = "_from_dict" /\ curObj.t = "inst"
  /\ curDict' = to_dict(curClass, IF applied = <<>> THEN curInput ELSE curObj)
  /\ SelfLeftAs(applied = <<>>,
                SelfAfterToDict(curClass, IF applied = <<>> THEN curInput ELSE curObj))
  /\ applied' = Append(applied, "_to_dict")
  /\ UNCHANGED <<curClass, again, curOther, curEq, opVars, concVars>>

(* _from_dict called once more on the dictionary it was just called on *)
FromDictAgain ==
  /\ again = Absent
  /\ applied # <<>>
  /\ applied[Len(applied)] = "_from_dict"
  /\ again' = [result |-> from_dict(curClass, IF Len(applied) = 1 THEN curInput ELSE curDict),
               method |-> "_from_dict"]
  /\ DictLeftAs(Len(applied) = 1,
                DictAfterFromDict(curClass, IF Len(applied) = 1 THEN curInput ELSE curDict))
  /\ UNCHANGED <<curClass, curObj, applied, curOther, curEq, opVars, concVars>>

(* _to_dict called once more on the instance it was just called on *)
ToDictAgain ==
  /\ again = Absent
  /\ applied # <<>>
  /\ applied[Len(applied)] = "_to_dict"
  /\ again' = [result |-> to_dict(curClass, IF Len(applied) = 1 THEN curInput ELSE curObj),
               method |-> "_to_dict"]
  /\ SelfLeftAs(Len(applied) = 1,
                SelfAfterToDict(curClass, IF Len(applied) = 1 THEN curInput ELSE curObj))
  /\ UNCHANGED <<curClass, curDict, applied, curOther, curEq, opVars, concVars>>

CodecNext == FromDict \/ ToDict \/ FromDictAgain \/ ToDictAgain

CodecSpec == CodecInit /\ [][CodecNext]_vars

(***************************************************************************)
(* Equality exercised: two instances are chosen and compared both ways.    *)
(***************************************************************************)
(* instances that differ from an instance of cls in one attribute: another *)
(* value, another nested instance, a list of another length or with        *)
(* another element                                                         *)
Variants(cls, self) ==
  UNION {{Instance(cls, Put(self.d, k, val)) : val \in AttrValues(cls, k)} : k \in Attrs(cls)}
    \cup {Instance(cls, Put(self.d, k, List(<<MinimalInstance(ListAttrs(cls)[k])>>))) :
            k \in DOMAIN ListAttrs(cls)}

(* what an instance of cls is compared with: instances of cls, equal to it *)
(* or not, instances of the other classes, with the very attributes of the *)
(* instance too, and values that are no instances                          *)
Others(cls, self) ==
  SampleInstances(cls) \cup Variants(cls, self)
    \cup {EmptyInstance(c) : c \in Classes} \cup {FullInstance(c) : c \in Classes}
    \cup {Instance(c, self.d) : c \in Classes \ {cls}}
    \cup {None, ScalarValue, Dict(self.d), List(<<self>>)}

EqInit ==
  /\ OpIdle
  /\ ConcIdle
  /\ curClass \in Classes
  /\ curInput \in SampleInstances(curClass)
  /\ curOther \in Others(curClass, curInput)
  /\ curDict = Absent
  /\ curObj = Absent
  /\ applied = <<>>
  /\ again = Absent
  /\ curEq = Absent

Compare ==
  /\ curEq = Absent
  /\ curOther # Absent
  /\ curEq' = [eq |-> __eq__(curInput, curOther),
               ne |-> __ne__(curInput, curOther),
               reflected |-> PyEq(curOther, curInput)]
  /\ UNCHANGED <<curClass, curInput, curDict, curObj, applied, again, curOther, opVars, concVars>>

EqNext == Compare

EqSpec == EqInit /\ [][EqNext]_vars

(***************************************************************************)
(* Concurrent calls on one instance.  Each thread makes one call; the      *)
(* handler runs statement by statement, the statements of different calls  *)
(* interleaved: the parameter checks, the headers, the body, the URL, then *)
(* self.request and the return.  headers, data and url are local variables *)
(* of the call; no statement assigns to an attribute of self.              *)
(***************************************************************************)
ConcCalls ==
  { CallRecord("post_feedback_payload",
               [data_mart_id |-> Str(<<"d", "/", "m">>), binding_id |-> Str(<<"b", "1">>),
                subscription_id |-> Str(<<"s", "1">>),
                values |-> List(<<List(<<Str(<<"v">>)>>)>>), fields |-> None],
               EmptyMap, Absent),
    CallRecord("post_feedback_payload",
               [data_mart_id |-> Str(<<"d", "/", "m">>), binding_id |-> Str(<<"b", "1">>),
                subscription_id |-> Str(<<"s", "1">>),
                values |-> List(<<List(<<Str(<<"v">>)>>)>>), fields |-> List(<<Str(<<"f">>)>>)],
               [headers |-> Dict([k \in {"Accept-Language"} |-> Str(<<"e", "n">>)])], Absent),
    CallRecord("get_explanation_task",
               [data_mart_id |-> Str(<<"d", "/", "m">>), explanation_task_id |-> Str(<<"t", "1">>)],
               [headers |-> None], Absent),
    CallRecord("post_explanation_task",
               [data_mart_id |-> Str(<<"d", "/", "m">>), scoring_id |-> Str(<<"s", "c">>)],
               EmptyMap, Absent),
    CallRecord("fairness_monitoring_debias",
               [data_mart_id |-> Str(<<"d", "/", "m">>), binding_id |-> Str(<<"b", "1">>),
                subscription_id |-> Str(<<"s", "1">>),
                values |-> List(<<List(<<Str(<<"v">>)>>)>>), fields |-> List(<<Str(<<"f">>)>>),
                deployment_id |-> Str(<<"p", "1">>),
                x_global_transaction_id |-> Str(<<"t", "x">>)],
               [headers |-> Dict([k \in {"X-Global-Transaction-Id"} |-> Str(<<"c">>)])], Absent),
    CallRecord("fairness_monitoring_debias",
               [data_mart_id |-> Str(<<"d", "/", "m">>), binding_id |-> None,
                subscription_id |-> Str(<<"s", "1">>),
                values |-> List(<<List(<<Str(<<"v">>)>>)>>), fields |-> List(<<Str(<<"f">>)>>),
                deployment_id |-> Str(<<"p", "1">>),
                x_global_transaction_id |-> None],
               EmptyMap, Absent) }

(* the statements of the handler of a call, by operation *)
OpValidate(call) ==
  LET a == call.args
  IN CASE call.op = "post_feedback_payload" ->
            post_feedback_payload_validate(a.data_mart_id, a.binding_id, a.subscription_id, a.values)
       [] call.op = "get_explanation_task" ->
            get_explanation_task_validate(a.data_mart_id, a.explanation_task_id)
       [] call.op = "post_explanation_task" ->
            post_explanation_task_validate(a.data_mart_id, a.scoring_id)
       [] call.op = "fairness_monitoring_debias" ->
            fairness_monitoring_debias_validate(a.data_mart_id, a.binding_id, a.subscription_id,
                                                a.deployment_id, a.fields, a.values)

OpHeaders(call) ==
  CASE call.op = "post_feedback_payload" -> post_feedback_payload_headers(call.kwargs)
    [] call.op = "get_explanation_task" -> get_explanation_task_headers(call.kwargs)
    [] call.op = "post_explanation_task" -> post_explanation_task_headers(call.kwargs)
    [] call.op = "fairness_monitoring_debias" ->
         fairness_monitoring_debias_headers(call.args.x_global_transaction_id, call.kwargs)

OpData(call) ==
  LET a == call.args
  IN CASE call.op = "post_feedback_payload" ->
            post_feedback_payload_data(a.binding_id, a.subscription_id, a.values, a.fields)
       [] call.op = "post_explanation_task" -> post_explanation_task_data(a.scoring_id)
       [] call.op = "fairness_monitoring_debias" ->
            fairness_monitoring_debias_data(a.fields, a.values)
       [] OTHER -> Absent

OpUrl(call) ==
  LET a == call.args
  IN CASE call.op = "post_feedback_payload" -> post_feedback_payload_url(a.data_mart_id)
       [] call.op = "get_explanation_task" ->
            get_explanation_task_url(a.data_mart_id, a.explanation_task_id)
       [] call.op = "post_explanation_task" -> post_explanation_task_url(a.data_mart_id)
       [] call.op = "fairness_monitoring_debias" ->
            fairness_monitoring_debias_url(a.data_mart_id, a.binding_id, a.subscription_id,
                                           a.deployment_id)

(* the arguments of self.request, from the local variables of the call *)
OpRequest(f) ==
  IF f.call.op = "get_explanation_task"
    THEN Request("GET", f.url, f.headers)
    ELSE RequestJson("POST", f.url, f.headers, f.data)

(* a local variable held in one place for all calls, as an attribute of    *)
(* the instance would be                                                    *)
StoreLocal_shared(frames, t, name, value) ==
  [u \in DOMAIN frames |->
     IF frames[u].call = NoCall THEN frames[u] ELSE [frames[u] EXCEPT ![name] = value]]

(* name = value in the handler of call t: a local variable belongs to the   *)
(* call that assigns it                                                     *)
StoreLocal(frames, t, name, value) ==
  [frames EXCEPT ![t][name] = value]

(* an exception leaves the handler *)
Raise(t, exc) ==
  /\ frame' = StoreLocal(frame, t, "result", exc)
  /\ pc' = [pc EXCEPT ![t] = "done"]

Invoke(t) ==
  /\ pc[t] = "idle"
  /\ \E c \in ConcCalls : frame' = [frame EXCEPT ![t] = [NoFrame EXCEPT !.call = c]]
  /\ pc' = [pc EXCEPT ![t] = "called"]
  /\ UNCHANGED <<client, opVars, codecVars>>

CheckParams(t) ==
  /\ pc[t] = "called"
  /\ LET checked == OpValidate(frame[t].call)
     IN IF IsRaise(checked)
          THEN Raise(t, checked)
          ELSE /\ pc' = [pc EXCEPT ![t] = "checked"]
               /\ UNCHANGED frame
  /\ UNCHANGED <<client, opVars, codecVars>>

SetHeaders(t) ==
  /\ pc[t] = "checked"
  /\ LET headers == OpHeaders(frame[t].call)
     IN IF IsRaise(headers)
          THEN Raise(t, headers)
          ELSE /\ frame' = StoreLocal(frame, t, "headers", headers)
               /\ pc' = [pc EXCEPT ![t] = IF frame[t].call.op = "get_explanation_task"
                                            THEN "data" ELSE "headers"]
  /\ UNCHANGED <<client, opVars, codecVars>>

SetData(t) ==
  /\ pc[t] = "headers"
  /\ frame' = StoreLocal(frame, t, "data", OpData(frame[t].call))
  /\ pc' = [pc EXCEPT ![t] = "data"]
  /\ UNCHANGED <<client, opVars, codecVars>>

SetUrl(t) ==
  /\ pc[t] = "data"
  /\ frame' = StoreLocal(frame, t, "url", OpUrl(frame[t].call))
  /\ pc' = [pc EXCEPT ![t] = "url"]
  /\ UNCHANGED <<client, opVars, codecVars>>

SendRequest(t) ==
  /\ pc[t] = "url"
  /\ \E resp \in TransportOutcomes(frame[t].call.op) :
       frame' = StoreLocal(StoreLocal(frame, t, "handed", OpRequest(frame[t])),
                           t, "result", Return(resp))
  /\ pc' = [pc EXCEPT ![t] = "done"]
  /\ UNCHANGED <<client, opVars, codecVars>>

ConcInit ==
  /\ OpIdle
  /\ CodecIdle
  /\ ConcIdle

ConcNext ==
  \E t \in Threads :
    \/ Invoke(t)
    \/ CheckParams(t)
    \/ SetHeaders(t)
    \/ SetData(t)
    \/ SetUrl(t)
    \/ SendRequest(t)

ConcSpec == ConcInit /\ [][ConcNext]_vars

(***************************************************************************)
(* Properties of the operations                                            *)
(***************************************************************************)
RequiredParams(op) ==
  CASE op = "post_feedback_payload" ->
         {"data_mart_id", "binding_id", "subscription_id", "values"}
    [] op = "get_explanation_task" -> {"data_mart_id", "explanation_task_id"}
    [] op = "post_explanation_task" -> {"data_mart_id", "scoring_id"}
    [] op = "fairness_monitoring_debias" ->
         {"data_mart_id", "binding_id", "subscription_id", "deployment_id",
          "fields", "values"}
    [] OTHER -> {}

MissingRequired(call) ==
  \E p \in RequiredParams(call.op) : call.args[p] = None

Handed == request.t = "request"

(* C1: a call of any of the four operations in which at least one required *)
(* parameter is None fails with a ValueError that names a required          *)
(* parameter which is None, and that call does not invoke the transport.    *)
C1_MissingParamFailsBeforeTransport ==
  [][ (ncalls' = ncalls + 1 /\ MissingRequired(last')) =>
        /\ last'.result.t = "raise"
        /\ last'.result.kind = "ValueError"
        /\ last'.result.param \in RequiredParams(last'.op)
        /\ last'.args[last'.result.param] = None
        /\ request' = Absent
        /\ nrequests' = nrequests ]_vars

C1_Witness ==
  /\ last.op = "post_feedback_payload"
  /\ last.args.values = None
  /\ \A p \in {"data_mart_id", "binding_id", "subscription_id"} : last.args[p] # None
  /\ last.result = ValueError("values")
  /\ request = Absent

(* The path templates of the four operations: literal segments and named   *)
(* slots.                                                                  *)
Lit(s) == [lit |-> s]
Slot(p) == [param |-> p]
PathTemplate(op) ==
  CASE op = "post_feedback_payload" ->
         <<Lit("v1"), Lit("data_marts"), Slot("data_mart_id"), Lit("feedback_payloads")>>
    [] op = "get_explanation_task" ->
         <<Lit("v1"), Lit("data_marts"), Slot("data_mart_id"),
           Lit("explanation_tasks"), Slot("explanation_task_id")>>
    [] op = "post_explanation_task" ->
         <<Lit("v1"), Lit("data_marts"), Slot("data_mart_id"), Lit("explanation_tasks")>>
    [] op = "fairness_monitoring_debias" ->
         <<Lit("v1"), Lit("data_marts"), Slot("data_mart_id"),
           Lit("service_bindings"), Slot("binding_id"),
           Lit("subscriptions"), Slot("subscription_id"),
           Lit("deployments"), Slot("deployment_id"), Lit("online")>>

TemplateMethod(op) == IF op = "get_explanation_task" THEN "GET" ELSE "POST"

ExpectedUrl(op, args) ==
  LET tpl == PathTemplate(op)
  IN Flatten([i \in 1..Len(tpl) |->
               <<"/">> \o (IF "lit" \in DOMAIN tpl[i]
                             THEN <<tpl[i].lit>>
                             ELSE encode_path_vars(args[tpl[i].param]))])

(* C3: whenever a call hands a request to the transport, its method is the  *)
(* operation's method and its path is the operation's template with each    *)
(* path parameter, percent-encoded, in its own slot.                        *)
C3_PathFollowsTemplate ==
  Handed =>
    /\ request.method = TemplateMethod(last.op)
    /\ request.url = ExpectedUrl(last.op, last.args)

C3_Witness ==
  /\ Handed
  /\ last.op = "fairness_monitoring_debias"
  /\ last.args.binding_id # last.args.subscription_id
  /\ last.args.subscription_id # last.args.deployment_id

FeedbackHanded == Handed /\ last.op = "post_feedback_payload"

FeedbackBodyIds ==
  /\ request.json.t = "obj"
  /\ request.json.v["binding_id"] = last.args.binding_id
  /\ request.json.v["subscription_id"] = last.args.subscription_id
  /\ request.json.v["values"] = last.args.values
  /\ "data_mart_id" \notin DOMAIN request.json.v

TxHeader == "X-Global-Transaction-Id"

DebiasHanded == Handed /\ last.op = "fairness_monitoring_debias"

CallerHeaders(call) ==
  IF "headers" \in DOMAIN call.kwargs /\ call.kwargs["headers"].t = "obj"
    THEN call.kwargs["headers"].v
    ELSE EmptyMap

DebiasBody ==
  /\ request.json.t = "obj"
  /\ DOMAIN request.json.v = {"fields", "values"}
  /\ request.json.v["fields"] = last.args.fields
  /\ request.json.v["values"] = last.args.values

(* C9 as stated: the body of a debias request has exactly the keys fields   *)
(* and values, as passed, and a transaction id that was passed is the value *)
(* of the X-Global-Transaction-Id header.                                   *)
C9_TransactionIdIsHeaderValue ==
  DebiasHanded =>
    /\ DebiasBody
    /\ last.args.x_global_transaction_id # None =>
         /\ TxHeader \in DOMAIN request.headers.v
         /\ request.headers.v[TxHeader] = last.args.x_global_transaction_id

(* C9 amended: the body has exactly the keys fields and values, as passed;  *)
(* the X-Global-Transaction-Id header carries the transaction id passed     *)
(* unless the caller's headers carry that key, and then it carries the      *)
(* caller's value.                                                          *)
C9_TransactionIdUnlessOverridden ==
  DebiasHanded =>
    /\ DebiasBody
    /\ TxHeader \in DOMAIN request.headers.v
    /\ request.headers.v[TxHeader] =
         IF TxHeader \in DOMAIN CallerHeaders(last)
           THEN CallerHeaders(last)[TxHeader]
           ELSE last.args.x_global_transaction_id

C9_Witness ==
  /\ DebiasHanded
  /\ last.args.x_global_transaction_id # None
  /\ TxHeader \notin DOMAIN CallerHeaders(last)
  /\ request.headers.v[TxHeader] = last.args.x_global_transaction_id

(* the headers an operation derives from its own parameters *)
DerivedHeaders(call) ==
  IF call.op = "fairness_monitoring_debias"
    THEN [k \in {TxHeader} |-> call.args.x_global_transaction_id]
    ELSE EmptyMap

(* C10: the headers handed to the transport have the keys of the derived    *)
(* headers and of the caller's headers; every key of the caller carries the *)
(* caller's value, every other key the derived value.                       *)
C10_CallerHeadersWin ==
  Handed =>
    /\ request.headers.t = "obj"
    /\ DOMAIN request.headers.v =
         (DOMAIN DerivedHeaders(last)) \cup (DOMAIN CallerHeaders(last))
    /\ \A k \in DOMAIN CallerHeaders(last) :
         request.headers.v[k] = CallerHeaders(last)[k]
    /\ \A k \in (DOMAIN DerivedHeaders(last)) \ (DOMAIN CallerHeaders(last)) :
         request.headers.v[k] = DerivedHeaders(last)[k]

C10_Witness ==
  /\ DebiasHanded
  /\ last.args.x_global_transaction_id # None
  /\ TxHeader \in DOMAIN CallerHeaders(last)
  /\ CallerHeaders(last)[TxHeader] # last.args.x_global_transaction_id
  /\ request.headers.v[TxHeader] = CallerHeaders(last)[TxHeader]

(* a transaction id was passed, or the caller's headers carry the key *)
TxSupplied(call) ==
  call.args.x_global_transaction_id # None \/ TxHeader \in DOMAIN CallerHeaders(call)

MadeOverrides == {kw["headers"] : kw \in {x \in Kwargs : "headers" \in DOMAIN x}}

(* C23: every call, whether it fails its parameter checks, fails in the     *)
(* update of the headers, fails in the transport or returns, leaves the     *)
(* headers mapping the caller passed with the keys and values it was passed *)
(* with; so the mapping the caller holds is always one the caller made, and *)
(* the headers handed over by a call that is passed the mapping again hold  *)
(* the X-Global-Transaction-Id of an earlier call only if the caller put it *)
(* there.                                                                   *)
C23_CallerHeadersLeftAlone ==
  [][ ncalls' = ncalls + 1 =>
        /\ overrides' = IF "headers" \in DOMAIN last'.kwargs
                          THEN last'.kwargs["headers"] ELSE Absent
        /\ overrides' \in MadeOverrides \cup {Absent}
        /\ (request' # Absent /\ last'.op # "fairness_monitoring_debias"
              /\ TxHeader \in DOMAIN request'.headers.v) =>
             \E m \in MadeOverrides :
               /\ m.t = "obj"
               /\ TxHeader \in DOMAIN m.v
               /\ request'.headers.v[TxHeader] = m.v[TxHeader] ]_vars

C23_Witness ==
  /\ ncalls = 2
  /\ last.op = "get_explanation_task"
  /\ Handed
  /\ IsRaise(last.result)
  /\ overrides = Dict([k \in {"Accept-Language"} |-> Str(<<"e", "n">>)])
  /\ request.headers = overrides

(* a call whose headers keyword argument, when given, is a dictionary *)
HeadersUsable(call) ==
  "headers" \in DOMAIN call.kwargs => call.kwargs["headers"].t = "obj"

(* C11 as stated: every call whose required parameters are all present      *)
(* invokes the transport exactly once, every call with a required parameter *)
(* absent invokes it not at all, and after every call the number of         *)
(* transport requests equals the number of calls that got past their        *)
(* parameter checks.                                                        *)
C11_OneRequestPerValidCall ==
  [][ ncalls' = ncalls + 1 =>
        /\ nrequests' = nrequests + (IF MissingRequired(last') THEN 0 ELSE 1)
        /\ nrequests' = npassed' ]_vars

(* what remains of C11 for the calls whose headers keyword argument is not  *)
(* None                                                                     *)
OneRequestPerValidCallWithHeaders ==
  [][ (ncalls' = ncalls + 1 /\ HeadersUsable(last')) =>
        nrequests' = nrequests + (IF MissingRequired(last') THEN 0 ELSE 1) ]_vars

RECURSIVE SplitPath(_)
(* a URL cut at its separators: the tokens before the first "/", then the   *)
(* tokens of each segment                                                   *)
SplitPath(url) ==
  IF url = <<>> THEN << <<>> >>
  ELSE LET segs == SplitPath(SubSeq(url, 1, Len(url) - 1))
           c == url[Len(url)]
       IN IF c = "/"
            THEN Append(segs, <<>>)
            ELSE [segs EXCEPT ![Len(segs)] = Append(@, c)]

RECURSIVE Unquote(_)
(* percent-decoding of a segment *)
Unquote(seg) ==
  IF seg = <<>> THEN <<>>
  ELSE IF Head(seg) = "%" /\ Len(seg) >= 3
    THEN LET code == <<seg[2], seg[3]>>
             c == CASE code = <<"2", "F">> -> "/"
                    [] code = <<"2", "5">> -> "%"
                    [] code = <<"3", "F">> -> "?"
                    [] code = <<"2", "3">> -> "#"
                    [] OTHER -> "invalid"
         IN <<c>> \o Unquote(SubSeq(seg, 4, Len(seg)))
    ELSE <<Head(seg)>> \o Unquote(Tail(seg))

ReservedChars == {"/", "?", "#"}

PostTaskHanded == Handed /\ last.op = "post_explanation_task"

(* the most recent call fetched the task the caller holds, and the service  *)
(* answered                                                                 *)
FetchedHeldTask ==
  /\ Handed
  /\ last.op = "get_explanation_task"
  /\ task # Absent
  /\ last.args.data_mart_id = task.data_mart_id
  /\ last.args.explanation_task_id = task.id
  /\ outcome.t = "response"

ReportedState == outcome.result.v["entity"].v["status"].v["state"]

SubmitRequest ==
  /\ request.method = "POST"
  /\ request.url = <<"/", "v1", "/", "data_marts", "/">>
                     \o encode_path_vars(last.args.data_mart_id)
                     \o <<"/", "explanation_tasks">>
  /\ request.json = Dict([k \in {"scoring_id"} |-> last.args.scoring_id])

FetchRequest ==
  /\ request.method = "GET"
  /\ request.url = <<"/", "v1", "/", "data_marts", "/">>
                     \o encode_path_vars(task.data_mart_id)
                     \o <<"/", "explanation_tasks", "/">>
                     \o encode_path_vars(task.id)

(* C15 as stated: a submission issues POST /v1/data_marts/d/explanation_tasks *)
(* with the body {"scoring_id": s}; a later fetch of the task it returned     *)
(* issues GET /v1/data_marts/d/explanation_tasks/<id> and returns an          *)
(* ExplanationTaskResponseEntity record whose status.state is the state the   *)
(* service reported.                                                          *)
C15_FetchReturnsEntityRecord ==
  /\ PostTaskHanded => SubmitRequest
  /\ FetchedHeldTask =>
       /\ FetchRequest
       /\ last.result.t = "inst"
       /\ last.result.cls = "ExplanationTaskResponseEntity"
       /\ last.result.d["status"].d["state"] = ReportedState

(* C15 amended: the requests are as stated; the fetch returns the response   *)
(* of the transport as it is, and decoding its JSON with                     *)
(* GetExplanationTaskResponse._from_dict gives a record whose entity is an   *)
(* ExplanationTaskResponseEntity with status.state the state the service     *)
(* reported.                                                                 *)
C15_FetchReturnsResponse ==
  /\ PostTaskHanded => SubmitRequest
  /\ FetchedHeldTask =>
       /\ FetchRequest
       /\ last.result = outcome
       /\ LET decoded == from_dict("GetExplanationTaskResponse", last.result.result)
          IN /\ decoded.t = "inst"
             /\ decoded.d["entity"].cls = "ExplanationTaskResponseEntity"
             /\ decoded.d["entity"].d["status"].d["state"] = ReportedState

C15_Witness ==
  /\ FetchedHeldTask
  /\ ncalls = 2
  /\ nrequests = 2
  /\ ReportedState = Str(<<"finished">>)
  /\ last.result = outcome

(* the required parameters of an operation in the order of its signature *)
ParamOrder(op) ==
  CASE op = "post_feedback_payload" ->
         <<"data_mart_id", "binding_id", "subscription_id", "values">>
    [] op = "get_explanation_task" -> <<"data_mart_id", "explanation_task_id">>
    [] op = "post_explanation_task" -> <<"data_mart_id", "scoring_id">>
    [] op = "fairness_monitoring_debias" ->
         <<"data_mart_id", "binding_id", "subscription_id", "deployment_id",
           "fields", "values">>

AbsentParams(call) ==
  {i \in 1..Len(ParamOrder(call.op)) : call.args[ParamOrder(call.op)[i]] = None}

FirstAbsent(call) ==
  ParamOrder(call.op)[CHOOSE i \in AbsentParams(call) :
                        \A j \in AbsentParams(call) : i <= j]

(* C19: a call with one or several required parameters absent raises the    *)
(* ValueError that names the first absent one in the order of the           *)
(* operation's signature.                                                   *)
C19_FirstAbsentParamNamed ==
  (ncalls > 0 /\ AbsentParams(last) # {}) => last.result = ValueError(FirstAbsent(last))

C19_Witness ==
  /\ last.op = "fairness_monitoring_debias"
  /\ last.args.data_mart_id # None
  /\ last.args.binding_id # None
  /\ last.args.subscription_id # None
  /\ last.args.deployment_id # None
  /\ last.args.fields = None
  /\ last.args.values = None
  /\ last.result = ValueError("fields")

(* C12: a call that hands a request to the transport hands exactly one, and *)
(* it returns what the transport returned, or raises what the transport     *)
(* raised, unchanged.                                                       *)
C12_TransportOutcomePassedThrough ==
  [][ (ncalls' = ncalls + 1 /\ request'.t = "request") =>
        /\ outcome' # Absent
        /\ last'.result = outcome'
        /\ nrequests' = nrequests + 1 ]_vars

C12_Witness ==
  /\ Handed
  /\ last.op = "fairness_monitoring_debias"
  /\ IsRaise(outcome)
  /\ last.result = outcome
  /\ nrequests = 1

(* what the handler of a call comes to when it runs alone: the exception it *)
(* raises or the request it hands over, from the arguments of the call      *)
Operation(call) ==
  LET a == call.args
  IN CASE call.op = "post_feedback_payload" ->
            post_feedback_payload(a.data_mart_id, a.binding_id, a.subscription_id,
                                  a.values, a.fields, call.kwargs)
       [] call.op = "get_explanation_task" ->
            get_explanation_task(a.data_mart_id, a.explanation_task_id, call.kwargs)
       [] call.op = "post_explanation_task" ->
            post_explanation_task(a.data_mart_id, a.scoring_id, call.kwargs)
       [] call.op = "fairness_monitoring_debias" ->
            fairness_monitoring_debias(a.data_mart_id, a.binding_id, a.subscription_id,
                                       a.deployment_id, a.fields, a.values,
                                       a.x_global_transaction_id, call.kwargs)

(* C13: whichever way the statements of concurrent calls interleave, no     *)
(* step changes an attribute of the instance, and the request a call hands  *)
(* to the transport (method, URL, headers, body) is the one its own         *)
(* arguments give; a call that raises before the transport raises what its  *)
(* own arguments give.                                                      *)
C13_CallsDoNotInterfere ==
  [][ /\ client' = client
      /\ \A t \in Threads :
           /\ frame'[t].handed # Absent => frame'[t].handed = Operation(frame'[t].call)
           /\ (pc'[t] = "done" /\ frame'[t].handed = Absent) =>
                frame'[t].result = Operation(frame'[t].call) ]_vars

C13_Witness ==
  /\ \A t \in Threads : pc[t] = "done"
  /\ frame[1].handed # Absent
  /\ frame[2].handed # Absent
  /\ frame[1].call.op # frame[2].call.op
  /\ frame[1].handed.headers # frame[2].handed.headers
  /\ client = NewClient

(***************************************************************************)
(* Properties of the codec                                                 *)
(***************************************************************************)
Decoded == curInput.t = "obj" /\ Len(applied) >= 1
Encoded == curInput.t = "inst" /\ Len(applied) >= 1

RECURSIVE MissingProperties(_, _)
(* the required properties absent from a dictionary read as cls, or from   *)
(* a dictionary nested in it, each paired with the class it is missing in  *)
MissingProperties(cls, dict) ==
  IF dict.t # "obj" THEN {}
  ELSE {<<k, cls>> : k \in RequiredAttrs(cls) \ DOMAIN dict.v}
       \cup UNION {MissingProperties(InstanceAttrs(cls)[k], dict.v[k]) :
                     k \in (DOMAIN InstanceAttrs(cls)) \cap (DOMAIN dict.v)}
       \cup UNION {IF dict.v[k].t = "list"
                     THEN UNION {MissingProperties(ListAttrs(cls)[k], dict.v[k].v[i]) :
                                   i \in 1..Len(dict.v[k].v)}
                     ELSE {} :
                     k \in (DOMAIN ListAttrs(cls)) \cap (DOMAIN dict.v)}

(* C2: decoding a dictionary from which a required property of the class   *)
(* is absent raises the ValueError 'Required property ... not present in    *)
(* ... JSON', naming a required property that is absent and the class it is *)
(* absent from.                                                             *)
C2_MissingRequiredPropertyRaises ==
  (Decoded /\ RequiredAttrs(curClass) \ DOMAIN curInput.v # {}) =>
    /\ IsRaise(curObj)
    /\ curObj.kind = "ValueError"
    /\ <<curObj.property, curObj.cls>> \in MissingProperties(curClass, curInput)

RECURSIVE NoNullNested(_, _)
(* no property that holds a record or a list of records is null, at any     *)
(* depth                                                                    *)
NoNullNested(cls, dict) ==
  /\ \A k \in (DOMAIN InstanceAttrs(cls)) \cap (DOMAIN dict.v) :
       dict.v[k] # None /\ NoNullNested(InstanceAttrs(cls)[k], dict.v[k])
  /\ \A k \in (DOMAIN ListAttrs(cls)) \cap (DOMAIN dict.v) :
       /\ dict.v[k] # None
       /\ \A i \in 1..Len(dict.v[k].v) : NoNullNested(ListAttrs(cls)[k], dict.v[k].v[i])

(* what remains of C2 on the dictionaries in which no nested record and no  *)
(* list of records is null                                                  *)
MissingRequiredPropertyRaisesWithoutNull ==
  (Decoded /\ NoNullNested(curClass, curInput)) => C2_MissingRequiredPropertyRaises

RECURSIVE Valid(_, _)
(* an instance of cls whose required attributes are set and whose nested    *)
(* instances are valid instances of the declared classes                    *)
Valid(cls, self) ==
  /\ self.t = "inst"
  /\ self.cls = cls
  /\ \A k \in RequiredAttrs(cls) : self.d[k] # None
  /\ \A k \in DOMAIN InstanceAttrs(cls) :
       self.d[k] # None => Valid(InstanceAttrs(cls)[k], self.d[k])
  /\ \A k \in DOMAIN ListAttrs(cls) :
       self.d[k] # None =>
         \A i \in 1..Len(self.d[k].v) : Valid(ListAttrs(cls)[k], self.d[k].v[i])

(* C4: for a valid instance r of any class, _from_dict(r._to_dict())        *)
(* returns an instance, and it equals r.                                    *)
C4_DecodeAfterEncode ==
  (Encoded /\ Len(applied) >= 2 /\ Valid(curClass, curInput)) => curObj = curInput

C4_Witness ==
  /\ curClass = "GetExplanationTaskResponse"
  /\ curInput = FullInstance(curClass)
  /\ applied = <<"_to_dict", "_from_dict">>
  /\ curObj = curInput

(* a dictionary without its keys whose value is null *)
NonNullKeys(dict) ==
  Dict([k \in {x \in DOMAIN dict.v : dict.v[x] # None} |-> dict.v[k]])

(* C5 as stated: when a dictionary j decodes, encoding the result gives j   *)
(* without its null-valued keys.                                            *)
C5_EncodeAfterDecodeKeepsKeys ==
  (Decoded /\ Len(applied) >= 2) => curDict = NonNullKeys(curInput)

RECURSIVE Declared(_, _)
(* a dictionary read as cls, cut down to the properties cls declares whose  *)
(* value is not null, nested dictionaries cut down in the same way          *)
Declared(cls, dict) ==
  Dict([k \in {x \in (DOMAIN dict.v) \cap Attrs(cls) : dict.v[x] # None} |->
          IF k \in DOMAIN InstanceAttrs(cls)
            THEN Declared(InstanceAttrs(cls)[k], dict.v[k])
          ELSE IF k \in DOMAIN ListAttrs(cls)
            THEN List([i \in 1..Len(dict.v[k].v) |->
                         Declared(ListAttrs(cls)[k], dict.v[k].v[i])])
          ELSE dict.v[k]])

(* C5 amended: when a dictionary j decodes, encoding the result gives j cut *)
(* down, at every depth of nested records, to the declared properties with  *)
(* a non-null value: undeclared keys and null-valued keys are gone, every   *)
(* other key is kept with its value.                                        *)
C5_EncodeAfterDecodeKeepsDeclared ==
  (Decoded /\ Len(applied) >= 2) => curDict = Declared(curClass, curInput)

C5_Witness ==
  /\ Decoded
  /\ applied = <<"_from_dict", "_to_dict">>
  /\ curClass = "ExplanationTaskResponseEntity"
  /\ UnknownKey \in DOMAIN curInput.v
  /\ "asset" \in DOMAIN curInput.v
  /\ curInput.v["asset"] = NullScalarsDict("ExplanationTaskResponseEntityAsset")
  /\ "asset" \in DOMAIN curDict.v

RECURSIVE EncodesSetAttrs(_, _, _)
(* dict has a key for exactly the attributes of self that are set, scalar   *)
(* attributes as they are, nested instances and lists of instances encoded  *)
(* in the same way, and so none of its keys carries None                    *)
EncodesSetAttrs(cls, self, dict) ==
  /\ dict.t = "obj"
  /\ DOMAIN dict.v = {k \in Attrs(cls) : self.d[k] # None}
  /\ \A k \in DOMAIN dict.v :
       /\ dict.v[k] # None
       /\ IF k \in DOMAIN InstanceAttrs(cls)
            THEN EncodesSetAttrs(InstanceAttrs(cls)[k], self.d[k], dict.v[k])
          ELSE IF k \in DOMAIN ListAttrs(cls)
            THEN /\ dict.v[k].t = "list"
                 /\ Len(dict.v[k].v) = Len(self.d[k].v)
                 /\ \A i \in 1..Len(self.d[k].v) :
                      EncodesSetAttrs(ListAttrs(cls)[k], self.d[k].v[i], dict.v[k].v[i])
          ELSE dict.v[k] = self.d[k]

(* C6: the dictionary _to_dict returns for an instance has a key for        *)
(* exactly the attributes that are set, at every depth of nested records,   *)
(* and no key of it carries None.                                           *)
C6_EncodeEmitsExactlySetAttrs ==
  (Encoded /\ Len(applied) = 1) => EncodesSetAttrs(curClass, curInput, curDict)

C6_Witness ==
  /\ Encoded
  /\ curClass = "ExplanationTaskResponseEntity"
  /\ curInput.d["asset"] = MinimalInstance("ExplanationTaskResponseEntityAsset")
  /\ curInput.d["predictions"] # None
  /\ curInput.d["contrastive_explanation"] = None
  /\ "asset" \in DOMAIN curDict.v
  /\ "contrastive_explanation" \notin DOMAIN curDict.v

RECURSIVE RequiredPresent(_, _), WithoutUnknown(_, _)
(* every required property is present in the dictionary and in the          *)
(* dictionaries nested in it                                                *)
RequiredPresent(cls, dict) == MissingProperties(cls, dict) = {}

(* the dictionary without the keys its class does not declare, at every     *)
(* depth                                                                    *)
WithoutUnknown(cls, dict) ==
  IF dict.t # "obj" THEN dict
  ELSE Dict([k \in (DOMAIN dict.v) \cap Attrs(cls) |->
          IF k \in DOMAIN InstanceAttrs(cls)
            THEN WithoutUnknown(InstanceAttrs(cls)[k], dict.v[k])
          ELSE IF k \in DOMAIN ListAttrs(cls) /\ dict.v[k].t = "list"
            THEN List([i \in 1..Len(dict.v[k].v) |->
                         WithoutUnknown(ListAttrs(cls)[k], dict.v[k].v[i])])
          ELSE dict.v[k]])

(* C7: a dictionary that has every required property decodes, whichever     *)
(* optional properties are absent and whichever unknown keys are present;   *)
(* the absent optional attributes are None, and the instance equals the one *)
(* decoded from the dictionary without its unknown keys.                    *)
C7_DecodesWhenRequiredPresent ==
  (Decoded /\ RequiredPresent(curClass, curInput)) =>
    /\ curObj.t = "inst"
    /\ \A k \in Attrs(curClass) \ DOMAIN curInput.v : curObj.d[k] = None
    /\ curObj = from_dict(curClass, WithoutUnknown(curClass, curInput))

(* what remains of C7 on the dictionaries in which no nested record and no  *)
(* list of records is null                                                  *)
DecodesWhenRequiredPresentWithoutNull ==
  (Decoded /\ NoNullNested(curClass, curInput)) => C7_DecodesWhenRequiredPresent

(* the two errors of this layer: a required parameter absent, a required    *)
(* property absent                                                          *)
IsInvalidArgument(x) == IsRaise(x) /\ x.kind = "ValueError" /\ "param" \in DOMAIN x
IsMissingRequiredField(x) == IsRaise(x) /\ x.kind = "ValueError" /\ "property" \in DOMAIN x

DecodeGivesRecordOrMissingField ==
  Decoded => (curObj.t = "inst" \/ IsMissingRequiredField(curObj))

CallGivesInvalidArgumentOrRequest ==
  ncalls > 0 => (IsInvalidArgument(last.result) \/ Handed)

(* C16 as stated: _from_dict of any class on any dictionary returns an      *)
(* instance or raises the missing-required-property error, and a call of    *)
(* any operation raises the missing-parameter error or hands a request to   *)
(* the transport.                                                           *)
C16_OnlyTwoErrorKinds ==
  /\ DecodeGivesRecordOrMissingField
  /\ CallGivesInvalidArgumentOrRequest

(* what remains of C16: dictionaries in which no nested record and no list  *)
(* of records is null, calls whose headers keyword argument is not None     *)
OnlyTwoErrorKindsWithoutNull ==
  /\ (Decoded /\ NoNullNested(curClass, curInput)) => DecodeGivesRecordOrMissingField
  /\ (ncalls > 0 /\ HeadersUsable(last)) => CallGivesInvalidArgumentOrRequest

Envelopes == {"GetExplanationTaskResponse", "PostExplanationTaskResponse"}

(* the required properties a nested dictionary lacks, each paired with the  *)
(* class the dictionary is read as                                          *)
LacksIn(cls, k, dict) ==
  IF dict.v[k].t = "obj"
  THEN {<<p, InstanceAttrs(cls)[k]>> : p \in RequiredAttrs(InstanceAttrs(cls)[k]) \ DOMAIN dict.v[k].v}
  ELSE {}

(* an envelope whose metadata and entity keys are both there, the metadata  *)
(* dictionary or the entity dictionary lacking a required property          *)
NestedLacksRequired ==
  /\ Decoded
  /\ Len(applied) = 1
  /\ curClass \in Envelopes
  /\ {"metadata", "entity"} \subseteq DOMAIN curInput.v
  /\ LacksIn(curClass, "metadata", curInput) \cup LacksIn(curClass, "entity", curInput) # {}

(* C20: decoding an envelope whose metadata dictionary lacks id, created_by *)
(* or created_at, or whose entity dictionary lacks status, raises the        *)
(* missing-required-property error naming a property that is lacking and    *)
(* the nested class it is lacking in; no instance is returned.              *)
C20_NestedRequiredPropertyEnforced ==
  NestedLacksRequired =>
    /\ IsMissingRequiredField(curObj)
    /\ curObj.cls \notin Envelopes
    /\ <<curObj.property, curObj.cls>> \in
         LacksIn(curClass, "metadata", curInput) \cup LacksIn(curClass, "entity", curInput)

(* what remains of C20 on the envelopes whose metadata and entity are both  *)
(* dictionaries                                                             *)
NestedRequiredPropertyEnforcedWithoutNull ==
  (Decoded /\ NoNullNested(curClass, curInput)) => C20_NestedRequiredPropertyEnforced

NestedRequiredPropertyRaised ==
  /\ NestedLacksRequired
  /\ curClass = "PostExplanationTaskResponse"
  /\ LacksIn(curClass, "metadata", curInput) = {}
  /\ curObj = RequiredProperty("status", "PostExplanationTaskResponseEntity")

(* the classes whose required properties are all scalars *)
ScalarRequiredClasses == {"ExplanationTaskResponseMetadata", "FairnessMonitoringRemediationResponse"}

(* C22: _from_dict of ExplanationTaskResponseMetadata and of                *)
(* FairnessMonitoringRemediationResponse, called on a dictionary, tests    *)
(* the required properties for presence only: when every required key is   *)
(* present an instance is                                                   *)
(* returned whose required attributes are the values given, None where the  *)
(* value is null, and the missing-required-property error is raised exactly *)
(* when a required key is absent, naming an absent key.                     *)
C22_RequiredTestedForPresenceOnly ==
  (Decoded /\ Len(applied) = 1 /\ curClass \in ScalarRequiredClasses) =>
    /\ RequiredAttrs(curClass) \subseteq DOMAIN curInput.v =>
         /\ curObj.t = "inst"
         /\ \A k \in RequiredAttrs(curClass) : curObj.d[k] = curInput.v[k]
    /\ IsMissingRequiredField(curObj) <=> ~(RequiredAttrs(curClass) \subseteq DOMAIN curInput.v)
    /\ IsMissingRequiredField(curObj) =>
         curObj.property \in RequiredAttrs(curClass) \ DOMAIN curInput.v

C22_Witness ==
  /\ Decoded
  /\ Len(applied) = 1
  /\ curClass = "ExplanationTaskResponseMetadata"
  /\ RequiredAttrs(curClass) \subseteq DOMAIN curInput.v
  /\ curInput.v["id"] = None
  /\ curInput.v["created_by"] # None
  /\ curObj.t = "inst"
  /\ curObj.d["id"] = None

(* the last codec method applied in the step, if one was *)
DecodeStep == applied' # applied /\ applied'[Len(applied')] = "_from_dict"
EncodeStep == applied' # applied /\ applied'[Len(applied')] = "_to_dict"
AgainStep == again = Absent /\ again' # Absent

Compared == curEq # Absent

SameClass == isinstance(curOther, curInput.cls)

(* every declared attribute of the two instances holds the same value *)
AttrsEqual == \A k \in Attrs(curClass) : curInput.d[k] = curOther.d[k]

(* C17: two instances of the same class are == exactly when every declared  *)
(* attribute is equal, nested instances and lists of instances included;    *)
(* != is the negation; == gives the same both ways round, and an instance   *)
(* is == to itself.                                                         *)
C17_EqualIffAttrsEqual ==
  Compared =>
    /\ SameClass => (curEq.eq <=> AttrsEqual)
    /\ curEq.ne = ~curEq.eq
    /\ curEq.reflected = curEq.eq
    /\ curOther = curInput => curEq.eq

C17_Witness ==
  /\ Compared
  /\ curClass = "GetExplanationTaskResponse"
  /\ curInput = FullInstance(curClass)
  /\ SameClass
  /\ curOther.d["metadata"] = curInput.d["metadata"]
  /\ curOther.d["entity"] # curInput.d["entity"]
  /\ curOther.d["entity"] # None
  /\ ~curEq.eq
  /\ curEq.ne

(* C24: an instance is never == to an instance of another class, whichever  *)
(* way round and even when the attributes of the two are the same; it is    *)
(* never == to a value that is no instance; and != gives the negation of    *)
(* == whatever it is compared with.                                         *)
C24_OtherClassNeverEqual ==
  Compared =>
    /\ (curOther.t = "inst" /\ curOther.cls # curInput.cls) =>
         (~curEq.eq /\ ~curEq.reflected)
    /\ curOther.t # "inst" => ~curEq.eq
    /\ curEq.ne = ~curEq.eq

C24_Witness ==
  /\ Compared
  /\ curClass = "ExplanationTaskResponseEntityStatus"
  /\ curOther.t = "inst"
  /\ curOther.cls = "PostExplanationTaskResponseEntityStatus"
  /\ curOther.d = curInput.d
  /\ curInput.d["state"] # None
  /\ ~curEq.eq
  /\ curEq.ne

(***************************************************************************)
(* Properties of the parameter checks on empty values                      *)
(***************************************************************************)
(* a required parameter of the call is an empty str or an empty list *)
EmptyRequired(call) ==
  \E p \in RequiredParams(call.op) :
    call.args[p] \in {Str(<<>>), List(<<>>)}

(* the call raised the error of an absent parameter exactly when a required *)
(* parameter was None, and when none was it handed over one request, with   *)
(* the values passed in the path                                            *)
RejectedIffNone ==
  /\ IsInvalidArgument(last'.result) <=> MissingRequired(last')
  /\ ~MissingRequired(last') =>
       /\ nrequests' = nrequests + 1
       /\ request' # Absent
       /\ request'.url = ExpectedUrl(last'.op, last'.args)

(* C25 as stated: every call, those passing an empty str or an empty list   *)
(* for a required parameter included, raises the error of an absent         *)
(* parameter exactly when a required parameter is None, and otherwise hands *)
(* exactly one request to the transport, the values passed in its path.     *)
C25_OnlyNoneRejected ==
  [][ ncalls' = ncalls + 1 => RejectedIffNone ]_vars

(* what remains of C25 for the calls whose headers keyword argument is not  *)
(* None                                                                     *)
OnlyNoneRejectedWithHeaders ==
  [][ (ncalls' = ncalls + 1 /\ HeadersUsable(last')) => RejectedIffNone ]_vars

(* an empty scoring id handed over in the body of the request *)
EmptyValueHanded ==
  /\ Handed
  /\ last.op = "post_explanation_task"
  /\ EmptyRequired(last)
  /\ request.json.v["scoring_id"] = Str(<<>>)

====
